---- MODULE Spec2Model ----
(***************************************************************************)
(* A model of read_generic.c, the reader of the Affymetrix "Command        *)
(* Console Generic Data" (Calvin) file format of affyio.                   *)
(*                                                                         *)
(* A stream is a sequence of bytes together with a cursor (a 0-based byte  *)
(* offset).  The readers are operators that take the stream and the cursor *)
(* and return the decoded value, the function's return code and the cursor *)
(* they leave behind.  The three drivers (Read_Generic_R_List,             *)
(* Read_Generic, gzRead_Generic) are the state machine.                    *)
(***************************************************************************)
EXTENDS Integers, Sequences, FiniteSets, TLC

VARIABLES
    file,           \* the bytes of the stream being read
    pos,            \* the stream cursor (ftell)
    pc,             \* the driver's position in its code
    driver,         \* which driver runs
    junk,           \* the content of memory that was never written
    my_header,      \* generic_file_header my_header
    my_data_header, \* generic_data_header my_data_header
    my_data_group,  \* generic_data_group my_data_group
    my_data_set,    \* generic_data_set my_data_set
    k,              \* group loop counter
    j,              \* data set loop counter
    rets,           \* return code of the last call of each reader
    cells,          \* the cells decoded by the last read_generic_data_set_rows
    group_reads,    \* log: one entry per group header read
    ds_reads,       \* log: one entry per data set read
    failed,         \* some reader has returned 0
    after_fail,     \* number of reader calls made after the first failure
    handed,         \* what was passed to the object-model builder / printer
    calls,          \* log: the calls made of the codecs, decoders and find_nvt
    input,          \* what the stream was written from (headers, rows)
    heap            \* the R_Calloc'ed memory: live blocks, faults of R_Free

vars == << file, pos, pc, driver, junk, my_header, my_data_header,
           my_data_group, my_data_set, k, j, rets, cells, group_reads,
           ds_reads, failed, after_fail, handed, calls, input, heap >>

(***************************************************************************)
(* Bounds of the model.                                                    *)
(***************************************************************************)
MaxGroups   == 3    \* data groups in a generated file
MaxDataSets == 2    \* data sets per group in a generated file
MaxPad      == 16   \* trailing padding after the rows of a data set
MaxCount    == 4    \* largest declared count a loop is followed through
MaxWidth    == 9    \* largest declared byte width of a string column
WidthBelow  == 2    \* declared byte widths start at -WidthBelow
MaxPrefix   == 6    \* largest on-disk length prefix of a string cell
MaxTail     == 14   \* bytes available after the prefix of a string cell
MaxStart    == 2    \* offset of the cell in the single-cell streams
MaxCalls    == 2    \* calls of the codecs and decoders logged in one behaviour
MaxCut      == 22   \* longest prefix of the triplet stream that is tried
MaxParents  == 2    \* parent headers of the root data header of a generated file
MaxCols     == 3    \* columns of a data set of numeric columns
MaxRows     == 2    \* rows of a data set of numeric columns

(***************************************************************************)
(* Constants of the format.                                                *)
(***************************************************************************)
MAGIC      == 59
VERSION    == 1
TYPE_ASTRING  == 7
TYPE_AWSTRING == 8

Min(a, b) == IF a < b THEN a ELSE b
Max(a, b) == IF a > b THEN a ELSE b

(***************************************************************************)
(* The stream: fread / fseek on a byte sequence.                           *)
(***************************************************************************)
ByteAt(f, p) == f[p + 1]

\* n bytes are available at offset p
Avail(f, p, n) == p >= 0 /\ p <= Len(f) /\ n <= Len(f) - p

\* the cursor after fread was asked for n bytes at p: a short read consumes
\* what is there
AdvanceBy(f, p, n) ==
    IF p >= Len(f) THEN p
    ELSE IF n <= Len(f) - p THEN p + n ELSE Len(f)

\* fseek(instream, off, SEEK_CUR): a negative target fails, cursor unchanged
fseek_cur(p, off) == IF p + off < 0 THEN p ELSE p + off

\* fseek(instream, off, SEEK_SET)
fseek_set(p, off) == IF off < 0 THEN p ELSE off

\* big-endian decoding of 4 / 2 bytes
S32(b0, b1, b2, b3) ==
    (IF b0 >= 128 THEN b0 - 256 ELSE b0) * 16777216 + b1 * 65536 + b2 * 256 + b3
U32(b0, b1, b2, b3) == b0 * 16777216 + b1 * 65536 + b2 * 256 + b3
U16(b0, b1) == b0 * 256 + b1
S16(b0, b1) == IF b0 >= 128 THEN (b0 - 256) * 256 + b1 ELSE b0 * 256 + b1
S8(b0) == IF b0 >= 128 THEN b0 - 256 ELSE b0

\* The fread_be_* primitives: value v, return code ret (items read), cursor.
\* g is the content of the destination when nothing is stored into it.
fread_be_uchar(f, p, g) ==
    IF Avail(f, p, 1)
    THEN [ret |-> 1, v |-> ByteAt(f, p), pos |-> p + 1]
    ELSE [ret |-> 0, v |-> g, pos |-> p]

fread_be_int8(f, p, g) ==
    IF Avail(f, p, 1)
    THEN [ret |-> 1, v |-> S8(ByteAt(f, p)), pos |-> p + 1]
    ELSE [ret |-> 0, v |-> g, pos |-> p]

fread_be_uint16(f, p, g) ==
    IF Avail(f, p, 2)
    THEN [ret |-> 1, v |-> U16(ByteAt(f, p), ByteAt(f, p + 1)), pos |-> p + 2]
    ELSE [ret |-> 0, v |-> g, pos |-> AdvanceBy(f, p, 2)]

fread_be_int16(f, p, g) ==
    IF Avail(f, p, 2)
    THEN [ret |-> 1, v |-> S16(ByteAt(f, p), ByteAt(f, p + 1)), pos |-> p + 2]
    ELSE [ret |-> 0, v |-> g, pos |-> AdvanceBy(f, p, 2)]

fread_be_int32(f, p, g) ==
    IF Avail(f, p, 4)
    THEN [ret |-> 1,
          v |-> S32(ByteAt(f, p), ByteAt(f, p + 1), ByteAt(f, p + 2), ByteAt(f, p + 3)),
          pos |-> p + 4]
    ELSE [ret |-> 0, v |-> g, pos |-> AdvanceBy(f, p, 4)]

fread_be_uint32(f, p, g) ==
    IF Avail(f, p, 4)
    THEN [ret |-> 1,
          v |-> U32(ByteAt(f, p), ByteAt(f, p + 1), ByteAt(f, p + 2), ByteAt(f, p + 3)),
          pos |-> p + 4]
    ELSE [ret |-> 0, v |-> g, pos |-> AdvanceBy(f, p, 4)]

\* fread_be_char(dest, n, instream): n single bytes; v holds the bytes that
\* were there (the rest of the R_Calloc'ed buffer stays zero)
fread_be_char(f, p, n) ==
    LET e == AdvanceBy(f, p, n)
    IN  [ret |-> IF Avail(f, p, n) THEN n ELSE e - p,
         v   |-> IF e > p THEN SubSeq(f, p + 1, e) ELSE << >>,
         pos |-> e]

\* the 16-bit code units complete in f from p on, at most n of them
Units(f, p, n) ==
    LET m == IF p >= Len(f) THEN 0 ELSE Min(n, (Len(f) - p) \div 2)
    IN  [i \in 1..m |-> U16(ByteAt(f, p + 2 * (i - 1)), ByteAt(f, p + 2 * (i - 1) + 1))]

\* the cursor after n fread_be_uint16 calls from p
AdvanceUnits(f, p, n) ==
    IF p >= Len(f) THEN p
    ELSE IF n <= (Len(f) - p) \div 2 THEN p + 2 * n ELSE Len(f)

(***************************************************************************)
(* Strings.  An ASTRING / AWSTRING is len, value; an absent value is the   *)
(* null pointer (present = FALSE).  Every reader returns its return code   *)
(* ret, the cursor pos it leaves and the decoded value v.                  *)
(***************************************************************************)
NullString == [len |-> 0, present |-> FALSE, value |-> << >>]

fread_ASTRING(f, p, g) ==
    LET l == fread_be_int32(f, p, g)
    IN  IF l.v > 0
        THEN [ret |-> 1, pos |-> AdvanceBy(f, l.pos, l.v),
              v |-> [len |-> l.v, present |-> TRUE,
                     value |-> fread_be_char(f, l.pos, l.v).v]]
        ELSE [ret |-> 1, pos |-> l.pos,
              v |-> [len |-> l.v, present |-> FALSE, value |-> << >>]]

\* fread_ASTRING_fw as it was before the fix of August 2021: nothing is
\* skipped behind a length prefix that is not positive
fread_ASTRING_fw_NoSkip(f, p, length, g) ==
    LET l == fread_be_int32(f, p, g)
    IN  IF l.v > 0
        THEN [ret |-> 1,
              pos |-> IF length > l.v
                      THEN fseek_cur(AdvanceBy(f, l.pos, l.v), length - l.v)
                      ELSE AdvanceBy(f, l.pos, l.v),
              v |-> [len |-> l.v, present |-> TRUE,
                     value |-> fread_be_char(f, l.pos, l.v).v]]
        ELSE [ret |-> 1, pos |-> l.pos,
              v |-> [len |-> l.v, present |-> FALSE, value |-> << >>]]

fread_ASTRING_fw(f, p, length, g) ==
    LET l == fread_be_int32(f, p, g)
    IN  IF l.v > 0
        THEN [ret |-> 1,
              pos |-> IF length > l.v
                      THEN fseek_cur(AdvanceBy(f, l.pos, l.v), length - l.v)
                      ELSE AdvanceBy(f, l.pos, l.v),
              v |-> [len |-> l.v, present |-> TRUE,
                     value |-> fread_be_char(f, l.pos, l.v).v]]
        ELSE [ret |-> 1, pos |-> fseek_cur(l.pos, length),
              v |-> [len |-> l.v, present |-> FALSE, value |-> << >>]]

\* fread_AWSTRING taking the length prefix for a count of bytes, one byte per
\* character
fread_AWSTRING_Narrow(f, p, g) ==
    LET l == fread_be_int32(f, p, g)
    IN  IF l.v > 0
        THEN [ret |-> 1, pos |-> AdvanceBy(f, l.pos, l.v),
              v |-> [len |-> l.v, present |-> TRUE,
                     value |-> fread_be_char(f, l.pos, l.v).v]]
        ELSE [ret |-> 1, pos |-> l.pos,
              v |-> [len |-> l.v, present |-> FALSE, value |-> << >>]]

fread_AWSTRING(f, p, g) ==
    LET l == fread_be_int32(f, p, g)
    IN  IF l.v > 0
        THEN [ret |-> 1, pos |-> AdvanceUnits(f, l.pos, l.v),
              v |-> [len |-> l.v, present |-> TRUE,
                     value |-> Units(f, l.pos, l.v)]]
        ELSE [ret |-> 1, pos |-> l.pos,
              v |-> [len |-> l.v, present |-> FALSE, value |-> << >>]]

fread_AWSTRING_fw(f, p, length, g) ==
    LET l == fread_be_int32(f, p, g)
    IN  IF l.v > 0
        THEN [ret |-> 1,
              pos |-> IF length > 2 * l.v
                      THEN fseek_cur(AdvanceUnits(f, l.pos, l.v), length - 2 * l.v)
                      ELSE AdvanceUnits(f, l.pos, l.v),
              v |-> [len |-> l.v, present |-> TRUE,
                     value |-> Units(f, l.pos, l.v)]]
        ELSE [ret |-> 1, pos |-> fseek_cur(l.pos, length),
              v |-> [len |-> l.v, present |-> FALSE, value |-> << >>]]

(***************************************************************************)
(* A structure reader is a chain  !read(a) || !read(b) || ... return 0.    *)
(* Its progress is st: ret (0 once a read of the chain has failed), the    *)
(* cursor, the values stored so far in field order, and cut (a declared    *)
(* count exceeds MaxCount, the loop is not followed).                      *)
(***************************************************************************)
Begin(p) == [ret |-> 1, pos |-> p, vals |-> << >>, cut |-> FALSE]

\* the read result r is stored as the next field
Push(st, r) ==
    [ret |-> IF r.ret = 0 THEN 0 ELSE 1, pos |-> r.pos,
     vals |-> Append(st.vals, r.v), cut |-> st.cut]

Last(st) == st.vals[Len(st.vals)]

\* field i of the structure: the value stored by the reader, or what the
\* memory held before
Field(st, i, old) == IF i <= Len(st.vals) THEN st.vals[i] ELSE old

ThenUchar(f, st, g) ==
    IF st.ret = 0 THEN st ELSE Push(st, fread_be_uchar(f, st.pos, g))
ThenInt32(f, st, g) ==
    IF st.ret = 0 THEN st ELSE Push(st, fread_be_int32(f, st.pos, g))
ThenUint32(f, st, g) ==
    IF st.ret = 0 THEN st ELSE Push(st, fread_be_uint32(f, st.pos, g))
ThenASTRING(f, st, g) ==
    IF st.ret = 0 THEN st ELSE Push(st, fread_ASTRING(f, st.pos, g))
ThenAWSTRING(f, st, g) ==
    IF st.ret = 0 THEN st ELSE Push(st, fread_AWSTRING(f, st.pos, g))

\* if (x != expected) return 0;
ThenEquals(st, expected) ==
    IF st.ret = 0 THEN st
    ELSE IF Last(st) # expected THEN [st EXCEPT !.ret = 0] ELSE st

\* prepend x to the list read by r
Cons(x, r) == [ret |-> r.ret, pos |-> r.pos, v |-> << x >> \o r.v, cut |-> r.cut]

(***************************************************************************)
(* Name / value / type triplets.                                           *)
(***************************************************************************)
AsTriplet(st) ==
    [ret |-> st.ret, pos |-> st.pos,
     v |-> [name |-> Field(st, 1, NullString), value |-> Field(st, 2, NullString),
            type |-> Field(st, 3, NullString)]]

fread_nvt_triplet(f, p) ==
    AsTriplet(ThenAWSTRING(f, ThenASTRING(f, ThenAWSTRING(f, Begin(p), 0), 0), 0))

\* for (i = 0; i < n; i++) if (!fread_nvt_triplet(&array[i], instream)) return 0;
RECURSIVE ReadTriplets(_, _, _)
MoreTriplets(f, t, n) ==
    IF t.ret = 0 THEN [ret |-> 0, pos |-> t.pos, v |-> << t.v >>, cut |-> FALSE]
    ELSE Cons(t.v, ReadTriplets(f, t.pos, n - 1))
ReadTriplets(f, p, n) ==
    IF n <= 0 THEN [ret |-> 1, pos |-> p, v |-> << >>, cut |-> FALSE]
    ELSE MoreTriplets(f, fread_nvt_triplet(f, p), n)

\* the loop over a declared count, the last field stored
ThenTriplets(f, st) ==
    IF st.ret = 0 THEN st
    ELSE IF Last(st) > MaxCount THEN [st EXCEPT !.ret = 0, !.cut = TRUE]
    ELSE Push(st, ReadTriplets(f, st.pos, Last(st)))

AsColumn(st) ==
    [ret |-> st.ret, pos |-> st.pos,
     v |-> [name |-> Field(st, 1, NullString), type |-> Field(st, 2, 0),
            size |-> Field(st, 3, 0)]]

fread_nvts_triplet(f, p) ==
    AsColumn(ThenInt32(f, ThenUchar(f, ThenAWSTRING(f, Begin(p), 0), 0), 0))

RECURSIVE ReadColumns(_, _, _)
MoreColumns(f, c, n) ==
    IF c.ret = 0 THEN [ret |-> 0, pos |-> c.pos, v |-> << c.v >>, cut |-> FALSE]
    ELSE Cons(c.v, ReadColumns(f, c.pos, n - 1))
ReadColumns(f, p, n) ==
    IF n <= 0 THEN [ret |-> 1, pos |-> p, v |-> << >>, cut |-> FALSE]
    ELSE MoreColumns(f, fread_nvts_triplet(f, p), n)

ThenColumns(f, st) ==
    IF st.ret = 0 THEN st
    ELSE IF Last(st) > MaxCount THEN [st EXCEPT !.ret = 0, !.cut = TRUE]
    ELSE Push(st, ReadColumns(f, st.pos, Last(st)))

(***************************************************************************)
(* The file header.                                                        *)
(***************************************************************************)
JunkFileHeader(g) ==
    [magic_number |-> g, version |-> g, n_data_groups |-> g,
     first_group_file_pos |-> g]

\* calls: the number of fields a read was issued for
AsFileHeader(st, old) ==
    [ret |-> st.ret, pos |-> st.pos, calls |-> Len(st.vals),
     hdr |-> [magic_number |-> Field(st, 1, old.magic_number),
              version |-> Field(st, 2, old.version),
              n_data_groups |-> Field(st, 3, old.n_data_groups),
              first_group_file_pos |-> Field(st, 4, old.first_group_file_pos)]]

\* read_generic_file_header with the magic number tested only after the
\* version has been read
read_generic_file_header_LateCheck(f, p, old) ==
    AsFileHeader(
        ThenUint32(f,
            ThenInt32(f,
                ThenEquals(
                    ThenUchar(f, ThenUchar(f, Begin(p), old.magic_number), old.version),
                    VERSION),
                old.n_data_groups),
            old.first_group_file_pos),
        old)

\* read_generic_file_header without the test of the version
read_generic_file_header_AnyVersion(f, p, old) ==
    AsFileHeader(
        ThenUint32(f,
            ThenInt32(f,
                ThenUchar(f,
                    ThenEquals(ThenUchar(f, Begin(p), old.magic_number), MAGIC),
                    old.version),
                old.n_data_groups),
            old.first_group_file_pos),
        old)

read_generic_file_header(f, p, old) ==
    AsFileHeader(
        ThenUint32(f,
            ThenInt32(f,
                ThenEquals(
                    ThenUchar(f,
                        ThenEquals(ThenUchar(f, Begin(p), old.magic_number), MAGIC),
                        old.version),
                    VERSION),
                old.n_data_groups),
            old.first_group_file_pos),
        old)

(***************************************************************************)
(* The data header and its parent headers.                                 *)
(***************************************************************************)
JunkString(g) == [len |-> g, present |-> FALSE, value |-> << >>]

\* a generic_data_header whose memory holds g everywhere
JunkDataHeader(g) ==
    [data_type_id |-> JunkString(g), unique_file_id |-> JunkString(g),
     Date_time |-> JunkString(g), locale |-> JunkString(g),
     n_name_type_value |-> g, name_type_value |-> << >>,
     n_parent_headers |-> g, parent_headers |-> << >>, nread |-> 0]

\* nread: the number of fields a read was issued for; the pointer
\* name_type_value is set from 6 on, the pointer parent_headers at 8
AsDataHeader(st, old) ==
    [ret |-> st.ret, pos |-> st.pos, cut |-> st.cut,
     v |-> [data_type_id |-> Field(st, 1, old.data_type_id),
            unique_file_id |-> Field(st, 2, old.unique_file_id),
            Date_time |-> Field(st, 3, old.Date_time),
            locale |-> Field(st, 4, old.locale),
            n_name_type_value |-> Field(st, 5, old.n_name_type_value),
            name_type_value |-> Field(st, 6, old.name_type_value),
            n_parent_headers |-> Field(st, 7, old.n_parent_headers),
            parent_headers |-> Field(st, 8, old.parent_headers),
            nread |-> Len(st.vals)]]

\* the reads of a data header up to n_parent_headers
HeaderFields(f, p, old) ==
    ThenInt32(f,
     ThenTriplets(f,
      ThenInt32(f,
       ThenAWSTRING(f,
        ThenAWSTRING(f,
         ThenASTRING(f,
          ThenASTRING(f, Begin(p), old.data_type_id.len),
          old.unique_file_id.len),
         old.Date_time.len),
        old.locale.len),
       old.n_name_type_value)),
     old.n_parent_headers)

RECURSIVE read_generic_data_header(_, _, _)
RECURSIVE ReadParents(_, _, _)

\* for (i = 0; i < n_parent_headers; i++) { temp_header = R_Calloc(..);
\*   if (!read_generic_data_header(temp_header, instream)) return 0;
\*   parent_headers[i] = temp_header; }
MoreParents(f, h, n) ==
    IF h.ret = 0 THEN [ret |-> 0, pos |-> h.pos, v |-> << >>, cut |-> h.cut]
    ELSE Cons(h.v, ReadParents(f, h.pos, n - 1))
ReadParents(f, p, n) ==
    IF n <= 0 THEN [ret |-> 1, pos |-> p, v |-> << >>, cut |-> FALSE]
    ELSE MoreParents(f, read_generic_data_header(f, p, JunkDataHeader(0)), n)

\* the parent headers declared but not read
ThenParents_None(f, st) ==
    IF st.ret = 0 THEN st
    ELSE Push(st, [ret |-> 1, pos |-> st.pos, v |-> << >>])

ThenParents(f, st) ==
    IF st.ret = 0 THEN st
    ELSE IF Last(st) > MaxCount THEN [st EXCEPT !.ret = 0, !.cut = TRUE]
    ELSE [Push(st, ReadParents(f, st.pos, Last(st))) EXCEPT
             !.cut = ReadParents(f, st.pos, Last(st)).cut]

read_generic_data_header(f, p, old) ==
    AsDataHeader(ThenParents(f, HeaderFields(f, p, old)), old)

RECURSIVE gzread_generic_data_header(_, _, _)
RECURSIVE gzReadParents(_, _, _)

\* for (i = 0; i < n_parent_headers; i++) { parent_headers[i] = R_Calloc(..);
\*   if (!gzread_generic_data_header(parent_headers[i], instream)) return 0; }
\* the header that failed stays in its slot
gzMoreParents(f, h, n) ==
    IF h.ret = 0 THEN [ret |-> 0, pos |-> h.pos, v |-> << h.v >>, cut |-> h.cut]
    ELSE Cons(h.v, gzReadParents(f, h.pos, n - 1))
gzReadParents(f, p, n) ==
    IF n <= 0 THEN [ret |-> 1, pos |-> p, v |-> << >>, cut |-> FALSE]
    ELSE gzMoreParents(f, gzread_generic_data_header(f, p, JunkDataHeader(0)), n)

gzThenParents(f, st) ==
    IF st.ret = 0 THEN st
    ELSE IF Last(st) > MaxCount THEN [st EXCEPT !.ret = 0, !.cut = TRUE]
    ELSE [Push(st, gzReadParents(f, st.pos, Last(st))) EXCEPT
             !.cut = gzReadParents(f, st.pos, Last(st)).cut]

gzread_generic_data_header(f, p, old) ==
    AsDataHeader(gzThenParents(f, HeaderFields(f, p, old)), old)

(***************************************************************************)
(* Data groups.                                                            *)
(***************************************************************************)
JunkDataGroup(g) ==
    [file_position_nextgroup |-> g, file_position_first_data |-> g,
     n_data_sets |-> g, data_group_name |-> JunkString(g)]

AsDataGroup(st, old) ==
    [ret |-> st.ret, pos |-> st.pos, nread |-> Len(st.vals),
     v |-> [file_position_nextgroup |-> Field(st, 1, old.file_position_nextgroup),
            file_position_first_data |-> Field(st, 2, old.file_position_first_data),
            n_data_sets |-> Field(st, 3, old.n_data_sets),
            data_group_name |-> Field(st, 4, old.data_group_name)]]

read_generic_data_group(f, p, old) ==
    AsDataGroup(
        ThenAWSTRING(f,
         ThenInt32(f,
          ThenUint32(f,
           ThenUint32(f, Begin(p), old.file_position_nextgroup),
           old.file_position_first_data),
          old.n_data_sets),
         old.data_group_name.len),
        old)

(***************************************************************************)
(* Data sets: schema and rows.                                             *)
(***************************************************************************)
JunkDataSet(g) ==
    [file_pos_first |-> g, file_pos_last |-> g, data_set_name |-> JunkString(g),
     n_name_type_value |-> g, name_type_value |-> << >>,
     ncols |-> g, col_name_type_value |-> << >>, nrows |-> g, Data |-> << >>]

\* R_Calloc(nrows, <element type>) for the type codes 0..8; the slot of any
\* other type code stays the null pointer of the R_Calloc'ed Data array
AllocColumn(type, nrows) ==
    IF type \in 0..6 THEN [alloc |-> TRUE, a |-> [i \in 1..nrows |-> 0]]
    ELSE IF type \in {TYPE_ASTRING, TYPE_AWSTRING}
    THEN [alloc |-> TRUE, a |-> [i \in 1..nrows |-> NullString]]
    ELSE [alloc |-> FALSE, a |-> << >>]

\* data_set->Data = R_Calloc(ncols, void *); for (i ..) switch (type) ...
\* reached only when every read of the schema succeeded
AllocData(st, old) ==
    IF st.ret = 0 \/ Len(st.vals) < 8 THEN old
    ELSE IF st.vals[8] > MaxCount THEN old
    ELSE [i \in 1..st.vals[6] |-> AllocColumn(st.vals[7][i].type, st.vals[8])]

AsDataSet(st, old) ==
    [ret |-> IF Len(st.vals) = 8 /\ st.ret = 1 /\ st.vals[8] > MaxCount
             THEN 0 ELSE st.ret,
     pos |-> st.pos,
     nread |-> Len(st.vals),
     cut |-> (st.cut \/ (Len(st.vals) = 8 /\ st.ret = 1 /\ st.vals[8] > MaxCount)),
     v |-> [file_pos_first |-> Field(st, 1, old.file_pos_first),
            file_pos_last |-> Field(st, 2, old.file_pos_last),
            data_set_name |-> Field(st, 3, old.data_set_name),
            n_name_type_value |-> Field(st, 4, old.n_name_type_value),
            name_type_value |-> Field(st, 5, old.name_type_value),
            ncols |-> Field(st, 6, old.ncols),
            col_name_type_value |-> Field(st, 7, old.col_name_type_value),
            nrows |-> Field(st, 8, old.nrows),
            Data |-> AllocData(st, old.Data)]]

read_generic_data_set(f, p, old) ==
    AsDataSet(
        ThenUint32(f,
         ThenColumns(f,
          ThenUint32(f,
           ThenTriplets(f,
            ThenInt32(f,
             ThenAWSTRING(f,
              ThenUint32(f,
               ThenUint32(f, Begin(p), old.file_pos_first),
               old.file_pos_last),
              old.data_set_name.len),
             old.n_name_type_value)),
           old.ncols)),
         old.nrows),
        old)

\* the descriptor of column c (1-based); a descriptor that was never read is
\* whatever the memory holds
ColumnOf(ds, c, g) ==
    IF c <= Len(ds.col_name_type_value) THEN ds.col_name_type_value[c]
    ELSE [name |-> NullString, type |-> g, size |-> g]

\* the switch with a default case that skips the declared width of the column
ReadCell_DefaultSkips(f, p, col) ==
    CASE col.type = 0 -> fread_be_int8(f, p, 0)
      [] col.type = 1 -> fread_be_uchar(f, p, 0)
      [] col.type = 2 -> fread_be_int16(f, p, 0)
      [] col.type = 3 -> fread_be_uint16(f, p, 0)
      [] col.type = 4 -> fread_be_int32(f, p, 0)
      [] col.type = 5 -> fread_be_uint32(f, p, 0)
      [] col.type = 6 -> fread_be_int32(f, p, 0)   \* the float's bit pattern
      [] col.type = TYPE_ASTRING -> fread_ASTRING_fw(f, p, col.size - 4, 0)
      [] col.type = TYPE_AWSTRING -> fread_AWSTRING_fw(f, p, col.size - 4, 0)
      [] OTHER -> [ret |-> 1, pos |-> p + Max(col.size, 0), v |-> 0]

\* one cell of read_generic_data_set_rows: the switch on the column type.
\* ret = 0 is the "return 0" of the case; a type code outside 0..8 has no case.
ReadCell(f, p, col) ==
    CASE col.type = 0 -> fread_be_int8(f, p, 0)
      [] col.type = 1 -> fread_be_uchar(f, p, 0)
      [] col.type = 2 -> fread_be_int16(f, p, 0)
      [] col.type = 3 -> fread_be_uint16(f, p, 0)
      [] col.type = 4 -> fread_be_int32(f, p, 0)
      [] col.type = 5 -> fread_be_uint32(f, p, 0)
      [] col.type = 6 -> fread_be_int32(f, p, 0)   \* the float's bit pattern
      [] col.type = TYPE_ASTRING -> fread_ASTRING_fw(f, p, col.size - 4, 0)
      [] col.type = TYPE_AWSTRING -> fread_AWSTRING_fw(f, p, col.size - 4, 0)
      [] OTHER -> [ret |-> 1, pos |-> p, v |-> 0]

\* every cell of a column written to the first entry of its array
StoreCell_FirstRow(Data, row, c, r) ==
    IF c <= Len(Data) /\ Data[c].alloc /\ 1 <= Len(Data[c].a)
    THEN [Data EXCEPT ![c].a[1] = r.v]
    ELSE Data

StoreCell(Data, row, c, r) ==
    IF c <= Len(Data) /\ Data[c].alloc /\ row <= Len(Data[c].a)
    THEN [Data EXCEPT ![c].a[row] = r.v]
    ELSE Data

CellEntry(row, c, col, p, r) ==
    [row |-> row, col |-> c, type |-> col.type, size |-> col.size,
     start |-> p, end |-> r.pos, ret |-> IF r.ret = 0 THEN 0 ELSE 1, v |-> r.v]

\* for (i = 0; i < nrows; i++) for (j = 0; j < ncols; j++) switch (type) ...
\* n is the index of the cell in wire order, 0-based
RECURSIVE ReadCells(_, _, _, _, _, _, _)
MoreCells(f, p, ds, g, n, Data, log, row, c, col, r) ==
    IF r.ret = 0
    THEN [ret |-> 0, pos |-> r.pos, Data |-> StoreCell(Data, row, c, r),
          cells |-> Append(log, CellEntry(row, c, col, p, r))]
    ELSE ReadCells(f, r.pos, ds, g, n + 1, StoreCell(Data, row, c, r),
                   Append(log, CellEntry(row, c, col, p, r)))
ReadCells(f, p, ds, g, n, Data, log) ==
    IF ds.ncols <= 0 \/ n >= ds.nrows * ds.ncols
    THEN [ret |-> 1, pos |-> p, Data |-> Data, cells |-> log]
    ELSE MoreCells(f, p, ds, g, n, Data, log,
                   (n \div ds.ncols) + 1, (n % ds.ncols) + 1,
                   ColumnOf(ds, (n % ds.ncols) + 1, g),
                   ReadCell(f, p, ColumnOf(ds, (n % ds.ncols) + 1, g)))

read_generic_data_set_rows(f, p, ds, g) ==
    ReadCells(f, p, ds, g, 0, ds.Data, << >>)

(***************************************************************************)
(* The heap.  A block is named by the place its pointer is stored at: the  *)
(* path from the driver's structure down to the pointer.  live holds the   *)
(* pointers whose block is allocated.  R_Calloc of no elements leaves no   *)
(* block to follow.                                                        *)
(***************************************************************************)
At(path, field) == Append(path, field)
Slot(path, field, i) == path \o << field, ToString(i) >>

\* R_Calloc stores new blocks at the pointers B: a block that is still live
\* at one of them is lost
MaxMade == 40
Allocate(h, B) ==
    [h EXCEPT !.live = h.live \cup B, !.lost = h.lost \cup (h.live \cap B),
              !.made = Min(h.made + Cardinality(B), MaxMade)]

\* R_Free of the pointers r.blocks: a pointer whose block is not live is
\* freed a second time
Release(h, r) ==
    [h EXCEPT !.live = h.live \ r.blocks,
              !.twice = h.twice \cup (r.blocks \ h.live),
              !.faults = h.faults \cup r.faults]

\* if (len > 0) value = R_Calloc(len + 1, ..); else value = 0;
\* and R_Free(string->value)
StringBlocks(s, path) == IF s.present THEN { path } ELSE {}

TripletBlocks(t, path) ==
    StringBlocks(t.name, At(path, "name"))
    \cup StringBlocks(t.value, At(path, "value"))
    \cup StringBlocks(t.type, At(path, "type"))

\* the strings of the first n triplets of an array
TripletsBlocks(ts, n, path) ==
    UNION { TripletBlocks(ts[i], Slot(path, "name_type_value", i)) :
                i \in 1..Min(n, Len(ts)) }

\* the names of the first n column descriptors of an array
ColumnsBlocks(cs, n, path) ==
    UNION { StringBlocks(cs[i].name, At(Slot(path, "col_name_type_value", i), "name")) :
                i \in 1..Min(n, Len(cs)) }

\* the R_Calloc calls of read_generic_data_header at p, from the fields it
\* has read: four strings, the triplet array and its strings, the array of
\* parent pointers, and for every parent that is read its node (temp_header)
\* with what the read of the parent allocates
RECURSIVE HeaderBlocks(_, _, _)
RECURSIVE ParentsBlocks(_, _, _, _, _)
ParentsBlocks(f, p, n, i, path) ==
    IF i > n THEN {}
    ELSE { Slot(path, "parent_headers", i) }
         \cup HeaderBlocks(f, p, Slot(path, "parent_headers", i))
         \cup (IF read_generic_data_header(f, p, JunkDataHeader(0)).ret = 0 THEN {}
               ELSE ParentsBlocks(f, read_generic_data_header(f, p, JunkDataHeader(0)).pos,
                                  n, i + 1, path))
FieldsBlocks(st, f, path) ==
    StringBlocks(st.vals[1], At(path, "data_type_id"))
    \cup StringBlocks(st.vals[2], At(path, "unique_file_id"))
    \cup StringBlocks(st.vals[3], At(path, "Date_time"))
    \cup StringBlocks(st.vals[4], At(path, "locale"))
    \cup (IF Len(st.vals) >= 6
          THEN (IF st.vals[5] > 0 THEN { At(path, "name_type_value") } ELSE {})
               \cup TripletsBlocks(st.vals[6], st.vals[5], path)
          ELSE {})
    \cup (IF Len(st.vals) = 7 /\ st.ret = 1 /\ st.vals[7] > 0 /\ st.vals[7] <= MaxCount
          THEN { At(path, "parent_headers") }
               \cup ParentsBlocks(f, st.pos, st.vals[7], 1, path)
          ELSE {})
HeaderBlocks(f, p, path) ==
    FieldsBlocks(HeaderFields(f, p, JunkDataHeader(0)), f, path)

\* Free_generic_data_header without the R_Free of the parent nodes
RECURSIVE Free_generic_data_header_KeepNodes(_, _, _)
Free_generic_data_header_KeepNodes(h, path, g) ==
    [blocks |->
        StringBlocks(h.data_type_id, At(path, "data_type_id"))
        \cup StringBlocks(h.unique_file_id, At(path, "unique_file_id"))
        \cup StringBlocks(h.Date_time, At(path, "Date_time"))
        \cup StringBlocks(h.locale, At(path, "locale"))
        \cup TripletsBlocks(h.name_type_value, h.n_name_type_value, path)
        \cup (IF h.nread >= 6 /\ h.n_name_type_value > 0
              THEN { At(path, "name_type_value") } ELSE {})
        \cup UNION { Free_generic_data_header_KeepNodes(h.parent_headers[i],
                         Slot(path, "parent_headers", i), 0).blocks :
                        i \in 1..Min(h.n_parent_headers, Len(h.parent_headers)) }
        \cup (IF h.nread >= 8 /\ h.n_parent_headers > 0
              THEN { At(path, "parent_headers") } ELSE {}),
     faults |-> {}]

\* Free_generic_data_header(header) on a header in memory that held g before
\* it was read into: the pointers given to R_Free that hold a block, and
\* the reads through a pointer that is null or was never set
RECURSIVE Free_generic_data_header(_, _, _)
Free_generic_data_header(h, path, g) ==
    [blocks |->
        StringBlocks(h.data_type_id, At(path, "data_type_id"))
        \cup StringBlocks(h.unique_file_id, At(path, "unique_file_id"))
        \cup StringBlocks(h.Date_time, At(path, "Date_time"))
        \cup StringBlocks(h.locale, At(path, "locale"))
        \cup TripletsBlocks(h.name_type_value, h.n_name_type_value, path)
        \cup (IF h.nread >= 6 /\ h.n_name_type_value > 0
              THEN { At(path, "name_type_value") } ELSE {})
        \cup UNION { { Slot(path, "parent_headers", i) }
                     \cup Free_generic_data_header(h.parent_headers[i],
                             Slot(path, "parent_headers", i), 0).blocks :
                        i \in 1..Min(h.n_parent_headers, Len(h.parent_headers)) }
        \cup (IF h.nread >= 8 /\ h.n_parent_headers > 0
              THEN { At(path, "parent_headers") } ELSE {}),
     faults |->
        (IF h.n_name_type_value > Len(h.name_type_value)
         THEN { "name_type_value[i] read through a pointer that was never set" }
         ELSE {})
        \cup (IF h.nread < 6 /\ g # 0
              THEN { "R_Free(name_type_value) of a pointer that was never set" }
              ELSE {})
        \cup (IF h.n_parent_headers > Len(h.parent_headers) /\ h.nread >= 8
              THEN { "Free_generic_data_header(parent_headers[i]) of a null slot" }
              ELSE {})
        \cup (IF h.n_parent_headers > Len(h.parent_headers) /\ h.nread < 8
              THEN { "parent_headers[i] read through a pointer that was never set" }
              ELSE {})
        \cup (IF h.nread < 8 /\ g # 0
              THEN { "R_Free(parent_headers) of a pointer that was never set" }
              ELSE {})
        \cup UNION { Free_generic_data_header(h.parent_headers[i],
                         Slot(path, "parent_headers", i), 0).faults :
                        i \in 1..Min(h.n_parent_headers, Len(h.parent_headers)) }]

\* the R_Calloc calls of read_generic_data_group: the name, read last
GroupBlocks(r, path) ==
    IF r.nread >= 4 THEN StringBlocks(r.v.data_group_name, At(path, "data_group_name"))
    ELSE {}

\* Free_generic_data_group; filled: the reader has stored every field
Free_generic_data_group(grp, path, filled) ==
    [blocks |-> IF filled
                THEN StringBlocks(grp.data_group_name, At(path, "data_group_name"))
                ELSE {},
     faults |-> IF filled THEN {}
                ELSE { "Free_generic_data_group of a structure that was not filled" }]

\* the R_Calloc calls of read_generic_data_set, from the fields it has read
DataSetBlocks(r, path) ==
    (IF r.nread >= 3 THEN StringBlocks(r.v.data_set_name, At(path, "data_set_name"))
     ELSE {})
    \cup (IF r.nread >= 5
          THEN (IF r.v.n_name_type_value > 0 THEN { At(path, "name_type_value") } ELSE {})
               \cup TripletsBlocks(r.v.name_type_value, r.v.n_name_type_value, path)
          ELSE {})
    \cup (IF r.nread >= 7
          THEN (IF r.v.ncols > 0 THEN { At(path, "col_name_type_value") } ELSE {})
               \cup ColumnsBlocks(r.v.col_name_type_value, r.v.ncols, path)
          ELSE {})
    \cup (IF r.nread = 8 /\ r.ret = 1
          THEN (IF r.v.ncols > 0 THEN { At(path, "Data") } ELSE {})
               \cup { Slot(path, "Data", i) : i \in
                        { c \in 1..Len(r.v.Data) : r.v.Data[c].alloc /\ r.v.nrows > 0 } }
          ELSE {})

\* the R_Calloc calls of read_generic_data_set_rows: the value of every
\* string cell with a positive length
RowsBlocks(log, path) ==
    { At(Slot(path, "Data", log[i].col), ToString(log[i].row)) :
        i \in { n \in 1..Len(log) :
                  log[n].type \in { TYPE_ASTRING, TYPE_AWSTRING } /\ log[n].v.present } }

\* the strings of the rows of column c, freed for the type codes 7 and 8
ColumnRowsBlocks(ds, c, path) ==
    IF ds.col_name_type_value[c].type \in { TYPE_ASTRING, TYPE_AWSTRING }
    THEN UNION { StringBlocks(ds.Data[c].a[i], At(Slot(path, "Data", c), ToString(i))) :
                    i \in 1..Min(ds.nrows, Len(ds.Data[c].a)) }
    ELSE {}

\* Free_generic_data_set; filled: the reader has stored every field
Free_generic_data_set(ds, path, filled) ==
    [blocks |->
        IF filled
        THEN UNION { ColumnRowsBlocks(ds, c, path)
                     \cup (IF ds.Data[c].alloc /\ ds.nrows > 0
                           THEN { Slot(path, "Data", c) } ELSE {}) :
                        c \in 1..Min(ds.ncols, Len(ds.Data)) }
             \cup (IF ds.ncols > 0 THEN { At(path, "Data") } ELSE {})
             \cup ColumnsBlocks(ds.col_name_type_value, ds.ncols, path)
             \cup (IF ds.ncols > 0 THEN { At(path, "col_name_type_value") } ELSE {})
             \cup TripletsBlocks(ds.name_type_value, ds.n_name_type_value, path)
             \cup (IF ds.n_name_type_value > 0 THEN { At(path, "name_type_value") } ELSE {})
             \cup StringBlocks(ds.data_set_name, At(path, "data_set_name"))
        ELSE {},
     faults |-> IF filled THEN {}
                ELSE { "Free_generic_data_set of a structure that was not filled" }]

(***************************************************************************)
(* The input files: the wire format of the sections the readers decode,    *)
(* written out for a family of files.                                      *)
(***************************************************************************)
BE32(n) == << n \div 16777216, (n \div 65536) % 256, (n \div 256) % 256, n % 256 >>

\* two's complement for a negative n
BE32s(n) ==
    IF n >= 0 THEN BE32(n)
    ELSE LET m == BE32(-(n + 1)) IN << 255 - m[1], 255 - m[2], 255 - m[3], 255 - m[4] >>

Fill(n, b) == [i \in 1..n |-> b]

\* the sequences of ss from the i-th on, one behind the other
RECURSIVE Concat(_, _)
Concat(ss, i) == IF i > Len(ss) THEN << >> ELSE ss[i] \o Concat(ss, i + 1)

EmptyString == BE32(0)
WideName(c) == BE32(1) \o << 0, c >>

FileHeaderBytes(magic, version, ng, first) ==
    << magic, version >> \o BE32s(ng) \o BE32(first)

DataHeaderBytes ==
    EmptyString \o EmptyString \o EmptyString \o EmptyString \o BE32(0) \o BE32(0)

\* the two kinds of column of the generated files
ColKinds == { "int32", "astring" }
ColType(kind) == IF kind = "int32" THEN 4 ELSE TYPE_ASTRING
ColSize(kind) == IF kind = "int32" THEN 4 ELSE 8
CellBytes(kind, row) ==
    IF kind = "int32" THEN BE32(1000 + row)
    ELSE BE32(2) \o << 72, 64 + row >> \o << 0, 0 >>
RowsPerDataSet == 2

RECURSIVE RowBytes(_, _)
RowBytes(kind, row) ==
    IF row > RowsPerDataSet THEN << >>
    ELSE CellBytes(kind, row) \o RowBytes(kind, row + 1)

GroupHeaderLen == 4 + 4 + 4 + 6
DataSetHeaderLen == 4 + 4 + 6 + 4 + 4 + 9 + 4
DataSetLen(kind, pad) == DataSetHeaderLen + RowsPerDataSet * ColSize(kind) + pad
BlockLen(nds, kind, pad) == GroupHeaderLen + nds * DataSetLen(kind, pad)

DataSetBytes(start, name, kind, pad) ==
    BE32(start + DataSetHeaderLen) \o BE32(start + DataSetLen(kind, pad))
    \o WideName(name) \o BE32(0) \o BE32(1)
    \o EmptyString \o << ColType(kind) >> \o BE32(ColSize(kind))
    \o BE32(RowsPerDataSet) \o RowBytes(kind, 1) \o Fill(pad, 238)

RECURSIVE DataSetsBytes(_, _, _, _, _, _)
DataSetsBytes(start, grp, d, nds, kind, pad) ==
    IF d > nds THEN << >>
    ELSE DataSetBytes(start, 10 * grp + d, kind, pad)
         \o DataSetsBytes(start + DataSetLen(kind, pad), grp, d + 1, nds, kind, pad)

GroupBytes(start, next, grp, nds, kind, pad) ==
    BE32(next) \o BE32(start + GroupHeaderLen) \o BE32(nds) \o WideName(grp)
    \o DataSetsBytes(start + GroupHeaderLen, grp, 1, nds, kind, pad)

\* the logical group stored in physical slot s (1-based) of ng groups
Layouts == { "forward", "reverse", "tail" }
GroupInSlot(layout, ng, s) ==
    IF layout = "forward" THEN s
    ELSE IF layout = "reverse" THEN ng + 1 - s
    ELSE IF s = 1 THEN 1 ELSE ng + 2 - s

SlotOfGroup(layout, ng, g) ==
    CHOOSE s \in 1..ng : GroupInSlot(layout, ng, s) = g

FirstBlock == 10 + 24
GroupStart(layout, ng, g, len) ==
    FirstBlock + (SlotOfGroup(layout, ng, g) - 1) * len

\* the last group's nextGroupPosition is 0
GroupNext(layout, ng, g, len) ==
    IF g < ng THEN GroupStart(layout, ng, g + 1, len) ELSE 0

RECURSIVE BlocksBytes(_, _, _, _, _, _)
BlocksBytes(layout, ng, s, nds, kind, pad) ==
    IF s > ng THEN << >>
    ELSE LET g   == GroupInSlot(layout, ng, s)
             len == BlockLen(nds, kind, pad)
         IN  GroupBytes(GroupStart(layout, ng, g, len), GroupNext(layout, ng, g, len),
                        g, nds, kind, pad)
             \o BlocksBytes(layout, ng, s + 1, nds, kind, pad)

Faults == { "none", "magic", "version", "empty", "cut1", "cut5", "cut40", "cut70" }
CutAt(fault) ==
    CASE fault = "empty" -> 0 [] fault = "cut1" -> 1 [] fault = "cut5" -> 5
      [] fault = "cut40" -> 40 [] fault = "cut70" -> 70 [] OTHER -> -1

Truncate(f, n) == IF n < 0 \/ n >= Len(f) THEN f ELSE SubSeq(f, 1, n)

FileBytes(layout, ng, nds, kind, pad, fault) ==
    Truncate(
        FileHeaderBytes(IF fault = "magic" THEN 60 ELSE MAGIC,
                        IF fault = "version" THEN 2 ELSE VERSION,
                        ng,
                        IF ng > 0
                        THEN GroupStart(layout, ng, 1, BlockLen(nds, kind, pad))
                        ELSE 0)
        \o DataHeaderBytes
        \o BlocksBytes(layout, ng, 1, nds, kind, pad),
        CutAt(fault))

(***************************************************************************)
(* The drivers.                                                            *)
(***************************************************************************)
Drivers == { "Read_Generic_R_List", "Read_Generic", "gzRead_Generic" }
JunkVals == { 0, 1 }

\* nothing allocated, nothing freed
NoHeap == [live |-> {}, lost |-> {}, twice |-> {}, faults |-> {}, made |-> 0]

NoRets == [file_header |-> -1, data_header |-> -1, data_group |-> -1,
           data_set |-> -1, rows |-> -1, calls |-> 0]

Init ==
    /\ \E layout \in Layouts, ng \in 0..MaxGroups, nds \in 0..MaxDataSets,
          kind \in ColKinds, pad \in {0, MaxPad}, fault \in Faults :
          file = FileBytes(layout, ng, nds, kind, pad, fault)
    /\ pos = 0
    /\ pc = "Start"
    /\ driver \in Drivers
    /\ junk \in JunkVals
    /\ my_header = JunkFileHeader(junk)
    /\ my_data_header = JunkDataHeader(junk)
    /\ my_data_group = JunkDataGroup(junk)
    /\ my_data_set = JunkDataSet(junk)
    /\ k = 0
    /\ j = 0
    /\ rets = NoRets
    /\ cells = << >>
    /\ group_reads = << >>
    /\ ds_reads = << >>
    /\ failed = FALSE
    /\ after_fail = 0
    /\ handed = << >>
    /\ heap = NoHeap
    /\ calls = << >>
    /\ input = << >>

\* bookkeeping of a reader call that returned ret
Called(ret) ==
    /\ failed' = (failed \/ ret = 0)
    /\ after_fail' = IF failed THEN after_fail + 1 ELSE after_fail

\* read_generic_file_header(&my_header, infile);
ReadFileHeader ==
    /\ pc = "Start"
    /\ LET r == read_generic_file_header(file, pos, my_header)
       IN  /\ pos' = r.pos
           /\ my_header' = r.hdr
           /\ rets' = [rets EXCEPT !.file_header = r.ret, !.calls = r.calls]
           /\ Called(r.ret)
           /\ pc' = IF r.hdr.n_data_groups > MaxCount THEN "Cutoff"
                    ELSE "FileHeaderRead"
    /\ UNCHANGED << file, driver, junk, my_data_header, my_data_group,
                    my_data_set, k, j, cells, group_reads, ds_reads, handed,
                    calls, input, heap >>

\* read_generic_data_header(&my_data_header, infile); then the two headers
\* go to the list builder (the printer in the two dump drivers)
ReadDataHeader ==
    /\ pc = "FileHeaderRead"
    /\ LET r == IF driver = "gzRead_Generic"
                THEN gzread_generic_data_header(file, pos, my_data_header)
                ELSE read_generic_data_header(file, pos, my_data_header)
       IN  /\ pos' = r.pos
           /\ my_data_header' = r.v
           /\ rets' = [rets EXCEPT !.data_header = r.ret]
           /\ Called(r.ret)
           /\ pc' = IF r.cut THEN "Cutoff" ELSE "RootDataHeaderRead"
    /\ heap' = Allocate(heap, HeaderBlocks(file, pos, << "my_data_header" >>))
    /\ handed' = handed \o << "FileHeader", "DataHeader" >>
    /\ k' = 0
    /\ UNCHANGED << file, driver, junk, my_header, my_data_group, my_data_set,
                    j, cells, group_reads, ds_reads,
                    calls, input >>

\* the group loop with the bound k <= my_header.n_data_groups
ReadDataGroup_OneMore ==
    /\ pc = "RootDataHeaderRead"
    /\ k <= my_header.n_data_groups
    /\ LET r == read_generic_data_group(file, pos, my_data_group)
       IN  /\ pos' = r.pos
           /\ my_data_group' = r.v
           /\ rets' = [rets EXCEPT !.data_group = r.ret]
           /\ Called(r.ret)
           /\ group_reads' = Append(group_reads,
                 [at |-> pos, ret |-> r.ret,
                  next |-> r.v.file_position_nextgroup,
                  sets |-> r.v.n_data_sets,
                  name |-> r.v.data_group_name, left_at |-> -1])
           /\ pc' = IF r.v.n_data_sets > MaxCount THEN "Cutoff"
                    ELSE "GroupHeaderRead"
           /\ heap' = Allocate(heap, GroupBlocks(r, << "my_data_group" >>))
    /\ handed' = Append(handed, "DataGroup")
    /\ j' = 0
    /\ UNCHANGED << file, driver, junk, my_header, my_data_header, my_data_set,
                    k, cells, ds_reads,
                    calls, input >>

\* for (k = 0; k < my_header.n_data_groups; k++) { read_generic_data_group(..)
ReadDataGroup ==
    /\ pc = "RootDataHeaderRead"
    /\ k < my_header.n_data_groups
    /\ LET r == read_generic_data_group(file, pos, my_data_group)
       IN  /\ pos' = r.pos
           /\ my_data_group' = r.v
           /\ rets' = [rets EXCEPT !.data_group = r.ret]
           /\ Called(r.ret)
           /\ group_reads' = Append(group_reads,
                 [at |-> pos, ret |-> r.ret,
                  next |-> r.v.file_position_nextgroup,
                  sets |-> r.v.n_data_sets,
                  name |-> r.v.data_group_name, left_at |-> -1])
           /\ pc' = IF r.v.n_data_sets > MaxCount THEN "Cutoff"
                    ELSE "GroupHeaderRead"
           /\ heap' = Allocate(heap, GroupBlocks(r, << "my_data_group" >>))
    /\ handed' = Append(handed, "DataGroup")
    /\ j' = 0
    /\ UNCHANGED << file, driver, junk, my_header, my_data_header, my_data_set,
                    k, cells, ds_reads,
                    calls, input >>

\* for (j = 0; j < my_data_group.n_data_sets; j++) { read_generic_data_set(..)
ReadDataSet ==
    /\ pc = "GroupHeaderRead"
    /\ j < my_data_group.n_data_sets
    /\ LET r == read_generic_data_set(file, pos, my_data_set)
       IN  /\ pos' = r.pos
           /\ my_data_set' = r.v
           /\ rets' = [rets EXCEPT !.data_set = r.ret]
           /\ Called(r.ret)
           /\ ds_reads' = Append(ds_reads,
                 [group |-> k, at |-> pos, ret |-> r.ret,
                  last |-> r.v.file_pos_last, rows_end |-> -1])
           /\ pc' = IF r.cut THEN "Cutoff" ELSE "DatasetSchemaRead"
           /\ heap' = Allocate(heap, DataSetBlocks(r, << "my_data_set" >>))
    /\ handed' = Append(handed, "DataSet")
    /\ UNCHANGED << file, driver, junk, my_header, my_data_header,
                    my_data_group, k, j, cells, group_reads,
                    calls, input >>

\* read_generic_data_set_rows(&my_data_set, infile); the columns then go to
\* the list builder
ReadRows ==
    /\ pc = "DatasetSchemaRead"
    /\ LET r == read_generic_data_set_rows(file, pos, my_data_set, junk)
       IN  /\ pos' = r.pos
           /\ my_data_set' = [my_data_set EXCEPT !.Data = r.Data]
           /\ cells' = r.cells
           /\ rets' = [rets EXCEPT !.rows = r.ret]
           /\ Called(r.ret)
           /\ ds_reads' = IF ds_reads = << >> THEN ds_reads
                          ELSE [ds_reads EXCEPT ![Len(ds_reads)].rows_end = r.pos]
           /\ heap' = Allocate(heap, RowsBlocks(r.cells, << "my_data_set" >>))
    /\ handed' = Append(handed, "Rows")
    /\ pc' = "RowsRead"
    /\ UNCHANGED << file, driver, junk, my_header, my_data_header,
                    my_data_group, k, j, group_reads,
                    calls, input >>

\* the end of the data set loop without the fseek to file_pos_last
SeekToLastRowPosition_NoSeek ==
    /\ pc = "RowsRead"
    /\ j' = j + 1
    /\ heap' = Release(heap, Free_generic_data_set(my_data_set, << "my_data_set" >>,
                                                   rets.data_set # 0))
    /\ pc' = "GroupHeaderRead"
    /\ UNCHANGED << file, pos, driver, junk, my_header, my_data_header,
                    my_data_group, my_data_set, k, rets, cells, group_reads,
                    ds_reads, failed, after_fail, handed,
                    calls, input >>

\* fseek(infile, my_data_set.file_pos_last, SEEK_SET);
\* Free_generic_data_set(&my_data_set); }
SeekToLastRowPosition ==
    /\ pc = "RowsRead"
    /\ pos' = fseek_set(pos, my_data_set.file_pos_last)
    /\ j' = j + 1
    /\ heap' = Release(heap, Free_generic_data_set(my_data_set, << "my_data_set" >>,
                                                   rets.data_set # 0))
    /\ pc' = "GroupHeaderRead"
    /\ UNCHANGED << file, driver, junk, my_header, my_data_header,
                    my_data_group, my_data_set, k, rets, cells, group_reads,
                    ds_reads, failed, after_fail, handed,
                    calls, input >>

\* the end of the group loop without the fseek to file_position_nextgroup
SeekToNextGroupPosition_NoSeek ==
    /\ pc = "GroupHeaderRead"
    /\ j >= my_data_group.n_data_sets
    /\ group_reads' = [group_reads EXCEPT ![Len(group_reads)].left_at = pos]
    /\ k' = k + 1
    /\ heap' = Release(heap, Free_generic_data_group(my_data_group, << "my_data_group" >>,
                                                     rets.data_group # 0))
    /\ pc' = "RootDataHeaderRead"
    /\ UNCHANGED << file, pos, driver, junk, my_header, my_data_header,
                    my_data_group, my_data_set, j, rets, cells, ds_reads,
                    failed, after_fail, handed,
                    calls, input >>

\* fseek(infile, my_data_group.file_position_nextgroup, SEEK_SET);
\* Free_generic_data_group(&my_data_group); }
\* gzRead_Generic has no seek here.
SeekToNextGroupPosition ==
    /\ pc = "GroupHeaderRead"
    /\ j >= my_data_group.n_data_sets
    /\ pos' = IF driver = "gzRead_Generic" THEN pos
              ELSE fseek_set(pos, my_data_group.file_position_nextgroup)
    /\ group_reads' = [group_reads EXCEPT ![Len(group_reads)].left_at = pos]
    /\ k' = k + 1
    /\ heap' = Release(heap, Free_generic_data_group(my_data_group, << "my_data_group" >>,
                                                     rets.data_group # 0))
    /\ pc' = "RootDataHeaderRead"
    /\ UNCHANGED << file, driver, junk, my_header, my_data_header,
                    my_data_group, my_data_set, j, rets, cells, ds_reads,
                    failed, after_fail, handed,
                    calls, input >>

\* Free_generic_data_header(&my_data_header); ... return return_value;
Finish ==
    /\ pc = "RootDataHeaderRead"
    /\ k >= my_header.n_data_groups
    /\ pc' = "Done"
    /\ heap' = Release(heap, Free_generic_data_header(my_data_header, << "my_data_header" >>,
                                                      junk))
    /\ handed' = Append(handed, "Result")
    /\ UNCHANGED << file, pos, driver, junk, my_header, my_data_header,
                    my_data_group, my_data_set, k, j, rets, cells, group_reads,
                    ds_reads, failed, after_fail,
                    calls, input >>

Next ==
    \/ ReadFileHeader
    \/ ReadDataHeader
    \/ ReadDataGroup
    \/ ReadDataSet
    \/ ReadRows
    \/ SeekToLastRowPosition
    \/ SeekToNextGroupPosition
    \/ Finish

Spec == Init /\ [][Next]_vars

(***************************************************************************)
(* Single cells: read_generic_data_set_rows on a data set of one string    *)
(* column and one row, for every declared width, length prefix and amount  *)
(* of bytes behind the prefix.                                             *)
(***************************************************************************)
TailBytes(n) == [i \in 1..n |-> 64 + i]

CellStream(start, prefix, plen, tail) ==
    Fill(start, 170) \o SubSeq(BE32s(prefix), 1, plen) \o TailBytes(tail)

CellDataSet(start, type, size) ==
    [file_pos_first |-> start, file_pos_last |-> start + Max(size, 0),
     data_set_name |-> NullString,
     n_name_type_value |-> 0, name_type_value |-> << >>,
     ncols |-> 1,
     col_name_type_value |-> << [name |-> NullString, type |-> type, size |-> size] >>,
     nrows |-> 1, Data |-> << AllocColumn(type, 1) >>]

InitCell ==
    /\ \E start \in 0..MaxStart, prefix \in -1..MaxPrefix, plen \in 0..4,
          tail \in 0..MaxTail, type \in {TYPE_ASTRING, TYPE_AWSTRING},
          size \in -WidthBelow..MaxWidth :
          /\ plen < 4 => tail = 0
          /\ file = CellStream(start, prefix, plen, tail)
          /\ pos = start
          /\ my_data_set = CellDataSet(start, type, size)
    /\ pc = "DatasetSchemaRead"
    /\ driver = "Read_Generic_R_List"
    /\ junk = 0
    /\ my_header = JunkFileHeader(0)
    /\ my_data_header = JunkDataHeader(0)
    /\ my_data_group = [JunkDataGroup(0) EXCEPT !.n_data_sets = 1]
    /\ k = 0
    /\ j = 0
    /\ rets = NoRets
    /\ cells = << >>
    /\ group_reads = << >>
    /\ ds_reads = << >>
    /\ failed = FALSE
    /\ after_fail = 0
    /\ handed = << >>
    /\ heap = Allocate(NoHeap, DataSetBlocks([nread |-> 8, ret |-> 1, v |-> my_data_set],
                                             << "my_data_set" >>))
    /\ calls = << >>
    /\ input = << >>

NextCell ==
    \/ ReadRows
    \/ SeekToLastRowPosition

SpecCell == InitCell /\ [][NextCell]_vars

(***************************************************************************)
(* The string codecs and the triplet reader on their own: streams that     *)
(* hold one length-prefixed string (every prefix, every amount of payload) *)
(* or one triplet cut off at every offset.                                 *)
(***************************************************************************)
\* the wire form of a narrow string, of a wide string and of a triplet
NarrowBytes(b) == BE32(Len(b)) \o b
WideBytes(u) ==
    BE32(Len(u)) \o
    [i \in 1..(2 * Len(u)) |->
        IF i % 2 = 1 THEN u[(i + 1) \div 2] \div 256 ELSE u[i \div 2] % 256]
TripletBytes(t) == WideBytes(t.name) \o NarrowBytes(t.value) \o WideBytes(t.type)

SampleTriplet == [name |-> << 78 >>, value |-> << 1, 2, 3, 4 >>, type |-> << 84 >>]

\* the int32 length prefix on disk at offset p
PrefixAt(f, p) ==
    S32(ByteAt(f, p), ByteAt(f, p + 1), ByteAt(f, p + 2), ByteAt(f, p + 3))

InitCodec ==
    /\ \/ \E start \in 0..MaxStart, prefix \in -1..MaxPrefix, plen \in 0..4,
             tail \in 0..MaxTail :
             /\ plen < 4 => tail = 0
             /\ file = CellStream(start, prefix, plen, tail)
             /\ pos = start
             /\ input = << >>
       \/ \E n \in 0..MaxCut :
             /\ file = Truncate(TripletBytes(SampleTriplet) \o TailBytes(2), n)
             /\ pos = 0
             /\ input = << SampleTriplet >>
    /\ pc = "Codec"
    /\ driver = "Read_Generic_R_List"
    /\ junk \in JunkVals
    /\ my_header = JunkFileHeader(0)
    /\ my_data_header = JunkDataHeader(0)
    /\ my_data_group = JunkDataGroup(0)
    /\ my_data_set = JunkDataSet(0)
    /\ k = 0
    /\ j = 0
    /\ rets = NoRets
    /\ cells = << >>
    /\ group_reads = << >>
    /\ ds_reads = << >>
    /\ failed = FALSE
    /\ after_fail = 0
    /\ handed = << >>
    /\ heap = NoHeap
    /\ calls = << >>

\* the log entry of a reader called at the cursor
ReaderCall(op, r) ==
    [op |-> op, at |-> pos, ret |-> r.ret, pos |-> r.pos, v |-> r.v]

\* fread_ASTRING(&destination, instream)
ReadNarrowString ==
    /\ pc = "Codec"
    /\ Len(calls) < MaxCalls
    /\ pos' = fread_ASTRING(file, pos, junk).pos
    /\ calls' = Append(calls, ReaderCall("fread_ASTRING", fread_ASTRING(file, pos, junk)))
    /\ UNCHANGED << file, pc, driver, junk, my_header, my_data_header,
                    my_data_group, my_data_set, k, j, rets, cells, group_reads,
                    ds_reads, failed, after_fail, handed, input, heap >>

\* fread_AWSTRING(&destination, instream)
ReadWideString ==
    /\ pc = "Codec"
    /\ Len(calls) < MaxCalls
    /\ pos' = fread_AWSTRING(file, pos, junk).pos
    /\ calls' = Append(calls, ReaderCall("fread_AWSTRING", fread_AWSTRING(file, pos, junk)))
    /\ UNCHANGED << file, pc, driver, junk, my_header, my_data_header,
                    my_data_group, my_data_set, k, j, rets, cells, group_reads,
                    ds_reads, failed, after_fail, handed, input, heap >>

\* fread_nvt_triplet(&destination, instream)
ReadTriplet ==
    /\ pc = "Codec"
    /\ Len(calls) < MaxCalls
    /\ pos' = fread_nvt_triplet(file, pos).pos
    /\ calls' = Append(calls, ReaderCall("fread_nvt_triplet", fread_nvt_triplet(file, pos)))
    /\ UNCHANGED << file, pc, driver, junk, my_header, my_data_header,
                    my_data_group, my_data_set, k, j, rets, cells, group_reads,
                    ds_reads, failed, after_fail, handed, input, heap >>

NextCodec ==
    \/ ReadNarrowString
    \/ ReadWideString
    \/ ReadTriplet

SpecCodec == InitCodec /\ [][NextCodec]_vars

(***************************************************************************)
(* Metadata values.  The raw value of a triplet is an ASTRING; the         *)
(* decoders copy its first four bytes into a 32-bit integer of the host    *)
(* and, on a host that is not big-endian, rearrange them.  A 32-bit word   *)
(* is written as its four bytes, most significant first.                   *)
(***************************************************************************)
\* WORDS_BIGENDIAN not defined / defined
Hosts == { "little", "big" }

\* byte i (1-based) of the R_Calloc'ed buffer of a value
RawByte(value, i) == IF i <= Len(value.value) THEN value.value[i] ELSE 0

\* memcpy(&contents, value.value, sizeof(int32_t))
memcpy32(value, host) ==
    IF host = "big"
    THEN << RawByte(value, 1), RawByte(value, 2), RawByte(value, 3), RawByte(value, 4) >>
    ELSE << RawByte(value, 4), RawByte(value, 3), RawByte(value, 2), RawByte(value, 1) >>

Shr24Mask(w) == << 0, 0, 0, w[1] >>     \* (contents >> 24) & 0xff
Shl24(w)     == << w[4], 0, 0, 0 >>     \* (contents & 0xff) << 24
Shr8Mask(w)  == << 0, 0, w[2], 0 >>     \* (contents >> 8) & 0xff00
Shl8Mask(w)  == << 0, w[3], 0, 0 >>     \* (contents & 0xff00) << 8
\* a | b for words that have no non-zero byte in common
Or32(a, b)   == [i \in 1..4 |-> Max(a[i], b[i])]

\* the byte swap of the 32-bit decoders
Swap32(w) == Or32(Or32(Shr24Mask(w), Shl24(w)), Or32(Shr8Mask(w), Shl8Mask(w)))

\* decode_INT8_t reading the most significant byte of the on-disk field
decode_INT8_t_TopByte(value, host) == S8(RawByte(value, 1))

decode_INT8_t(value, host) ==
    IF host = "big" THEN S8(memcpy32(value, host)[4])
    ELSE S8(Shr24Mask(memcpy32(value, host))[4])

decode_UINT8_t(value, host) ==
    IF host = "big" THEN memcpy32(value, host)[4]
    ELSE Shr24Mask(memcpy32(value, host))[4]

\* the word of the 16-bit decoders before the cast
Word16(value, host) ==
    IF host = "big" THEN memcpy32(value, host)
    ELSE Or32(Shr24Mask(memcpy32(value, host)), Shr8Mask(memcpy32(value, host)))

decode_INT16_t(value, host) == S16(Word16(value, host)[3], Word16(value, host)[4])

\* decode_UINT16_t reading the top two bytes of the on-disk field
decode_UINT16_t_TopBytes(value, host) == U16(RawByte(value, 1), RawByte(value, 2))

decode_UINT16_t(value, host) == U16(Word16(value, host)[3], Word16(value, host)[4])

\* the word of the 32-bit decoders
Word32(value, host) ==
    IF host = "big" THEN memcpy32(value, host) ELSE Swap32(memcpy32(value, host))

\* the int32_t a word stands for
AsInt32(w) == S32(w[1], w[2], w[3], w[4])

decode_INT32_t(value, host) == AsInt32(Word32(value, host))

\* declared int32_t decode_UINT32_t: the uint32_t is returned as int32_t
decode_UINT32_t(value, host) == AsInt32(Word32(value, host))

\* decode_float32 without the byte swap
decode_float32_NoSwap(value, host) == memcpy32(value, host)

\* the float is its bit pattern
decode_float32(value, host) == Word32(value, host)

\* a wide or narrow C string ends at its first 0
CStr(s) ==
    IF \A i \in 1..Len(s) : s[i] # 0 THEN s
    ELSE SubSeq(s, 1, (CHOOSE i \in 1..Len(s) :
                          s[i] = 0 /\ \A n \in 1..(i - 1) : s[n] # 0) - 1)

\* decode_ASCII: R_Calloc(len + 1), memcpy of len bytes
decode_ASCII(value) == [i \in 1..Max(value.len, 0) |-> RawByte(value, i)]

\* contents[i] of decode_TEXT: the uint16_t the host holds for two bytes
Load16(m1, m2, host) == IF host = "big" THEN m1 * 256 + m2 ELSE m2 * 256 + m1
\* ((c >> 8) & 0xff) | ((c & 0xff) << 8)
Swap16(c) == ((c \div 256) % 256) + (c % 256) * 256

decode_TEXT(value, host) ==
    [i \in 1..(Max(value.len, 0) \div 2) |->
        IF host = "big"
        THEN Load16(RawByte(value, 2 * i - 1), RawByte(value, 2 * i), host)
        ELSE Swap16(Load16(RawByte(value, 2 * i - 1), RawByte(value, 2 * i), host))]

\* "text/" and "text/x-calvin-" as code units
TextSlash == << 116, 101, 120, 116, 47 >>
CalvinPrefix == TextSlash \o << 120, 45, 99, 97, 108, 118, 105, 110, 45 >>
\* L"text/x-calvin-float"
Tag_float == CalvinPrefix \o << 102, 108, 111, 97, 116 >>
\* L"text/plain"
Tag_plain == TextSlash \o << 112, 108, 97, 105, 110 >>
\* L"text/ascii"
Tag_ascii == TextSlash \o << 97, 115, 99, 105, 105 >>
\* L"text/x-calvin-integer-32"
Tag_int32 ==
    CalvinPrefix \o << 105, 110, 116, 101, 103, 101, 114, 45, 51, 50 >>
\* L"text/x-calvin-integer-16"
Tag_int16 ==
    CalvinPrefix \o << 105, 110, 116, 101, 103, 101, 114, 45, 49, 54 >>
\* L"text/x-calvin-unsigned-integer-32"
Tag_uint32 ==
    CalvinPrefix \o << 117, 110, 115, 105, 103, 110, 101, 100, 45, 105, 110,
        116, 101, 103, 101, 114, 45, 51, 50 >>
\* L"text/x-calvin-unsigned-integer-16"
Tag_uint16 ==
    CalvinPrefix \o << 117, 110, 115, 105, 103, 110, 101, 100, 45, 105, 110,
        116, 101, 103, 101, 114, 45, 49, 54 >>
\* L"text/x-calvin-integer-8"
Tag_int8 == CalvinPrefix \o << 105, 110, 116, 101, 103, 101, 114, 45, 56 >>
\* L"text/x-calvin-unsigned-integer-8"
Tag_uint8 ==
    CalvinPrefix \o << 117, 110, 115, 105, 103, 110, 101, 100, 45, 105, 110,
        116, 101, 103, 101, 114, 45, 56 >>

KnownTags == { Tag_float, Tag_plain, Tag_ascii, Tag_int32, Tag_int16,
               Tag_uint32, Tag_uint16, Tag_int8, Tag_uint8 }

\* !wcscmp(triplet.type.value, L"...")
wcscmp_equal(a, b) == CStr(a) = CStr(b)

\* determine_MIMETYPE failing on an unknown tag
determine_MIMETYPE_Strict(triplet) ==
    CASE wcscmp_equal(triplet.type.value, Tag_float)  -> "FLOAT32"
      [] wcscmp_equal(triplet.type.value, Tag_plain)  -> "PLAINTEXT"
      [] wcscmp_equal(triplet.type.value, Tag_ascii)  -> "ASCIITEXT"
      [] wcscmp_equal(triplet.type.value, Tag_int32)  -> "INT32"
      [] wcscmp_equal(triplet.type.value, Tag_int16)  -> "INT16"
      [] wcscmp_equal(triplet.type.value, Tag_uint32) -> "UINT32"
      [] wcscmp_equal(triplet.type.value, Tag_uint16) -> "INT16"
      [] wcscmp_equal(triplet.type.value, Tag_int8)   -> "INT8"
      [] wcscmp_equal(triplet.type.value, Tag_uint8)  -> "UINT8"
      [] OTHER -> "NONE"

determine_MIMETYPE(triplet) ==
    CASE wcscmp_equal(triplet.type.value, Tag_float)  -> "FLOAT32"
      [] wcscmp_equal(triplet.type.value, Tag_plain)  -> "PLAINTEXT"
      [] wcscmp_equal(triplet.type.value, Tag_ascii)  -> "ASCIITEXT"
      [] wcscmp_equal(triplet.type.value, Tag_int32)  -> "INT32"
      [] wcscmp_equal(triplet.type.value, Tag_int16)  -> "INT16"
      [] wcscmp_equal(triplet.type.value, Tag_uint32) -> "UINT32"
      [] wcscmp_equal(triplet.type.value, Tag_uint16) -> "INT16"
      [] wcscmp_equal(triplet.type.value, Tag_int8)   -> "INT8"
      [] wcscmp_equal(triplet.type.value, Tag_uint8)  -> "UINT8"
      [] OTHER -> "FLOAT32"

\* what decode_MIME_value delivers: the type of the object written (kind),
\* *size and the value; a uint32_t and a float are their 32-bit words
decode_MIME_value(triplet, mimetype, host) ==
    CASE mimetype = "ASCIITEXT" ->
            [kind |-> "ASCIITEXT", size |-> Len(CStr(decode_ASCII(triplet.value))),
             v |-> CStr(decode_ASCII(triplet.value))]
      [] mimetype = "PLAINTEXT" ->
            [kind |-> "PLAINTEXT",
             size |-> Len(CStr(decode_TEXT(triplet.value, host))),
             v |-> CStr(decode_TEXT(triplet.value, host))]
      [] mimetype = "UINT8" ->
            [kind |-> "UINT8", size |-> 1, v |-> decode_UINT8_t(triplet.value, host)]
      [] mimetype = "INT8" ->
            [kind |-> "INT8", size |-> 1, v |-> decode_INT8_t(triplet.value, host)]
      [] mimetype = "UINT16" ->
            [kind |-> "UINT16", size |-> 1, v |-> decode_UINT16_t(triplet.value, host)]
      [] mimetype = "INT16" ->
            [kind |-> "INT16", size |-> 1, v |-> decode_INT16_t(triplet.value, host)]
      [] mimetype = "UINT32" ->
            [kind |-> "UINT32", size |-> 1,
             v |-> BE32s(decode_UINT32_t(triplet.value, host))]
      [] mimetype = "INT32" ->
            [kind |-> "INT32", size |-> 1, v |-> decode_INT32_t(triplet.value, host)]
      [] mimetype = "FLOAT32" ->
            [kind |-> "FLOAT32", size |-> 1, v |-> decode_float32(triplet.value, host)]
      [] OTHER -> [kind |-> "NONE", size |-> 0, v |-> 0]

\* the primitive decoders by name
Decoders == { "decode_INT8_t", "decode_UINT8_t", "decode_INT16_t", "decode_UINT16_t",
              "decode_INT32_t", "decode_UINT32_t", "decode_float32", "decode_TEXT" }
Decoder(d, value, host) ==
    CASE d = "decode_INT8_t"   -> decode_INT8_t(value, host)
      [] d = "decode_UINT8_t"  -> decode_UINT8_t(value, host)
      [] d = "decode_INT16_t"  -> decode_INT16_t(value, host)
      [] d = "decode_UINT16_t" -> decode_UINT16_t(value, host)
      [] d = "decode_INT32_t"  -> decode_INT32_t(value, host)
      [] d = "decode_UINT32_t" -> decode_UINT32_t(value, host)
      [] d = "decode_float32"  -> decode_float32(value, host)
      [] d = "decode_TEXT"     -> decode_TEXT(value, host)

\* the triplets the decoders are applied to: a 4-byte raw value of bytes
\* from ByteVals, and a type tag that is known, unknown, cut short, or
\* followed by units behind a terminating 0
ByteVals == { 0, 1, 127, 128, 255 }
TagFamily ==
    KnownTags \cup
    { CalvinPrefix \o << 100, 111, 117, 98, 108, 101 >>,    \* text/x-calvin-double
      SubSeq(Tag_plain, 1, 9),                               \* text/plai
      Tag_ascii \o << 0, 120 >>,
      << 0 >> }
MetaTriplet(tag, b) ==
    [name  |-> [len |-> 1, present |-> TRUE, value |-> << 78 >>],
     value |-> [len |-> 4, present |-> TRUE, value |-> b],
     type  |-> [len |-> Len(tag), present |-> TRUE, value |-> tag]]

InitDecode ==
    /\ file = << >>
    /\ pos = 0
    /\ pc = "Decode"
    /\ \E h \in Hosts : input = << h >>
    /\ driver = "Read_Generic_R_List"
    /\ junk = 0
    /\ my_header = JunkFileHeader(0)
    /\ my_data_header = JunkDataHeader(0)
    /\ my_data_group = JunkDataGroup(0)
    /\ my_data_set = JunkDataSet(0)
    /\ k = 0
    /\ j = 0
    /\ rets = NoRets
    /\ cells = << >>
    /\ group_reads = << >>
    /\ ds_reads = << >>
    /\ failed = FALSE
    /\ after_fail = 0
    /\ handed = << >>
    /\ heap = NoHeap
    /\ calls = << >>

\* decode_MIME_value(triplet, determine_MIMETYPE(triplet), &result, &size)
DecodeMimeValue ==
    /\ pc = "Decode"
    /\ calls = << >>
    /\ \E tag \in TagFamily, b \in [1..4 -> ByteVals] :
          calls' = << [op |-> "decode_MIME_value", host |-> input[1],
                       triplet |-> MetaTriplet(tag, b),
                       mimetype |-> determine_MIMETYPE(MetaTriplet(tag, b)),
                       result |-> decode_MIME_value(MetaTriplet(tag, b),
                                      determine_MIMETYPE(MetaTriplet(tag, b)),
                                      input[1])] >>
    /\ UNCHANGED << file, pos, pc, driver, junk, my_header, my_data_header,
                    my_data_group, my_data_set, k, j, rets, cells, group_reads,
                    ds_reads, failed, after_fail, handed, input, heap >>

\* a primitive decoder called on the raw value of a triplet
DecodePrimitive ==
    /\ pc = "Decode"
    /\ calls = << >>
    /\ \E d \in Decoders, b \in [1..4 -> ByteVals] :
          calls' = << [op |-> d, host |-> input[1],
                       value |-> MetaTriplet(Tag_float, b).value,
                       result |-> Decoder(d, MetaTriplet(Tag_float, b).value,
                                          input[1])] >>
    /\ UNCHANGED << file, pos, pc, driver, junk, my_header, my_data_header,
                    my_data_group, my_data_set, k, j, rets, cells, group_reads,
                    ds_reads, failed, after_fail, handed, input, heap >>

NextDecode ==
    \/ DecodeMimeValue
    \/ DecodePrimitive

SpecDecode == InitDecode /\ [][NextDecode]_vars

(***************************************************************************)
(* The lineage of a data header: files whose data header has metadata      *)
(* triplets and parent headers, and find_nvt on the header read.           *)
(***************************************************************************)
\* narrow name to wide name: each character below 128 is its own code unit,
\* anything else is not converted
mbstowcs(name) == IF \A i \in 1..Len(name) : name[i] < 128 THEN name ELSE << >>

NameMatches(h, wname, i) == wcscmp_equal(wname, h.name_type_value[i].name.value)

\* the loop over the header's own list keeping the last match
LastMatch(h, wname) ==
    IF \E i \in 1..h.n_name_type_value : NameMatches(h, wname, i)
    THEN CHOOSE i \in 1..h.n_name_type_value :
            /\ NameMatches(h, wname, i)
            /\ \A n \in (i + 1)..h.n_name_type_value : ~NameMatches(h, wname, n)
    ELSE 0

\* for (i = 0; i < n_name_type_value; i++) if (wcscmp(..) == 0) { .. break; }
\* the 1-based index of the triplet found, 0 if none
FirstMatch(h, wname) ==
    IF \E i \in 1..h.n_name_type_value : NameMatches(h, wname, i)
    THEN CHOOSE i \in 1..h.n_name_type_value :
            /\ NameMatches(h, wname, i)
            /\ \A n \in 1..(i - 1) : ~NameMatches(h, wname, n)
    ELSE 0

\* the result of find_nvt: the null pointer, or the triplet with the place
\* it lives at (path: parent indices from the header down, index in the list)
NotFound == [found |-> FALSE, path |-> << >>, index |-> 0, triplet |-> << >>]
FoundAt(h, i) ==
    [found |-> TRUE, path |-> << >>, index |-> i, triplet |-> << h.name_type_value[i] >>]
Below(i, r) == [r EXCEPT !.path = << i >> \o r.path]

RECURSIVE find_nvt(_, _)
RECURSIVE find_in_parents(_, _, _)
\* for (i = 0; i < n_parent_headers; i++) { returnvalue = find_nvt(parent i);
\*   if (returnvalue != 0) break; }
find_in_parents(h, name, i) ==
    IF i > h.n_parent_headers THEN NotFound
    ELSE IF find_nvt(h.parent_headers[i], name).found
    THEN Below(i, find_nvt(h.parent_headers[i], name))
    ELSE find_in_parents(h, name, i + 1)
find_nvt(h, name) ==
    IF FirstMatch(h, mbstowcs(name)) # 0
    THEN FoundAt(h, FirstMatch(h, mbstowcs(name)))
    ELSE find_in_parents(h, name, 1)

\* the headers the files are written from: triplets (name, 4-byte value that
\* tells the triplets apart, one-unit type) and parent headers
Trip(n, id) == [name |-> << n >>, value |-> << 0, 0, 0, id >>, type |-> << 84 >>]
MkHeader(names, base, parents) ==
    [triplets |-> [i \in 1..Len(names) |-> Trip(names[i], base + i)],
     parents |-> parents]

RECURSIVE TripletsBytes(_, _)
TripletsBytes(ts, i) ==
    IF i > Len(ts) THEN << >> ELSE TripletBytes(ts[i]) \o TripletsBytes(ts, i + 1)

RECURSIVE HeaderBytes(_)
RECURSIVE HeadersBytes(_, _)
HeadersBytes(hs, i) ==
    IF i > Len(hs) THEN << >> ELSE HeaderBytes(hs[i]) \o HeadersBytes(hs, i + 1)
HeaderBytes(h) ==
    EmptyString \o EmptyString \o EmptyString \o EmptyString
    \o BE32(Len(h.triplets)) \o TripletsBytes(h.triplets, 1)
    \o BE32(Len(h.parents)) \o HeadersBytes(h.parents, 1)

RootNames   == { << >>, << 65 >>, << 66 >>, << 65, 65 >>, << 65, 66 >> }
ParentNames == { << >>, << 65 >>, << 67 >>, << 67, 67 >> }
GrandNames  == { << >>, << 67 >>, << 68 >> }
LookupNames == { << 65 >>, << 66 >>, << 67 >>, << 68 >> }

\* parent i of the root: the first parent may have a parent of its own
ParentHeader(i, names, ng, gnames) ==
    MkHeader(names, 20 * i,
             IF i = 1 /\ ng = 1 THEN << MkHeader(gnames, 100, << >>) >> ELSE << >>)

InitMeta ==
    /\ \E rn \in RootNames, np \in 0..MaxParents, ng \in 0..1, gn \in GrandNames :
          \E pn \in [1..np -> ParentNames] :
             /\ ng = 0 => gn = << >>
             /\ np = 0 => ng = 0
             /\ input = << MkHeader(rn, 0,
                              [i \in 1..np |-> ParentHeader(i, pn[i], ng, gn)]) >>
    /\ file = FileHeaderBytes(MAGIC, VERSION, 0, 10 + Len(HeaderBytes(input[1])))
                \o HeaderBytes(input[1])
    /\ pos = 0
    /\ pc = "Start"
    /\ driver = "Read_Generic_R_List"
    /\ junk \in JunkVals
    /\ my_header = JunkFileHeader(junk)
    /\ my_data_header = JunkDataHeader(junk)
    /\ my_data_group = JunkDataGroup(junk)
    /\ my_data_set = JunkDataSet(junk)
    /\ k = 0
    /\ j = 0
    /\ rets = NoRets
    /\ cells = << >>
    /\ group_reads = << >>
    /\ ds_reads = << >>
    /\ failed = FALSE
    /\ after_fail = 0
    /\ handed = << >>
    /\ heap = NoHeap
    /\ calls = << >>

\* find_nvt(&my_data_header, name) on the header that was read
LookUp ==
    /\ pc = "RootDataHeaderRead"
    /\ rets.data_header = 1
    /\ calls = << >>
    /\ \E name \in LookupNames :
          calls' = << [op |-> "find_nvt", name |-> name,
                       result |-> find_nvt(my_data_header, name)] >>
    /\ UNCHANGED << file, pos, pc, driver, junk, my_header, my_data_header,
                    my_data_group, my_data_set, k, j, rets, cells, group_reads,
                    ds_reads, failed, after_fail, handed, input, heap >>

NextMeta ==
    \/ ReadFileHeader
    \/ ReadDataHeader
    \/ LookUp

SpecMeta == InitMeta /\ [][NextMeta]_vars

(***************************************************************************)
(* Aborted reads of the data header: files of no data group whose data     *)
(* header (with triplets and parent headers) is cut off at every offset,   *)
(* read by each driver and released at the end of the driver.              *)
(***************************************************************************)
CutNames == { << >>, << 67 >> }

InitAbort ==
    /\ \E rn \in CutNames, np \in 0..MaxParents, ng \in 0..1 :
          \E pn \in [1..np -> CutNames] :
             /\ np = 0 => ng = 0
             /\ input = << MkHeader(rn, 0,
                              [i \in 1..np |-> ParentHeader(i, pn[i], ng, << 68 >>)]) >>
    /\ \E cut \in 10..(10 + Len(HeaderBytes(input[1]))) :
          file = Truncate(FileHeaderBytes(MAGIC, VERSION, 0, 0) \o HeaderBytes(input[1]),
                          cut)
    /\ pos = 0
    /\ pc = "Start"
    /\ driver \in Drivers
    /\ junk \in JunkVals
    /\ my_header = JunkFileHeader(junk)
    /\ my_data_header = JunkDataHeader(junk)
    /\ my_data_group = JunkDataGroup(junk)
    /\ my_data_set = JunkDataSet(junk)
    /\ k = 0
    /\ j = 0
    /\ rets = NoRets
    /\ cells = << >>
    /\ group_reads = << >>
    /\ ds_reads = << >>
    /\ failed = FALSE
    /\ after_fail = 0
    /\ handed = << >>
    /\ heap = NoHeap
    /\ calls = << >>

NextAbort ==
    \/ ReadFileHeader
    \/ ReadDataHeader
    \/ Finish

SpecAbort == InitAbort /\ [][NextAbort]_vars

(***************************************************************************)
(* Rows of numeric columns: read_generic_data_set_rows on data sets of up  *)
(* to MaxCols columns of the type codes 0..6 and up to MaxRows rows.       *)
(***************************************************************************)
\* bytes a cell of a numeric type code takes on the wire
TypeWidth(t) == IF t \in {0, 1} THEN 1 ELSE IF t \in {2, 3} THEN 2 ELSE 4

RECURSIVE WidthsBefore(_, _)
\* bytes of the cells of a row before column c
WidthsBefore(types, c) ==
    IF c <= 1 THEN 0 ELSE WidthsBefore(types, c - 1) + TypeWidth(types[c - 1])
RowWidth(types) == WidthsBefore(types, Len(types) + 1)

\* the offset of the cell of row r, column c (both 1-based) of rows that
\* start at start
CellOffset(start, types, r, c) ==
    start + (r - 1) * RowWidth(types) + WidthsBefore(types, c)

\* the bytes of the rows: every value of a byte occurs, high bits included
RowPattern(n, seed) == [i \in 1..n |-> (seed + 77 * i) % 256]

RowsDataSet(start, types, nrows) ==
    [file_pos_first |-> start, file_pos_last |-> start + nrows * RowWidth(types),
     data_set_name |-> NullString,
     n_name_type_value |-> 0, name_type_value |-> << >>,
     ncols |-> Len(types),
     col_name_type_value |->
        [c \in 1..Len(types) |->
            [name |-> NullString, type |-> types[c], size |-> TypeWidth(types[c])]],
     nrows |-> nrows,
     Data |-> [c \in 1..Len(types) |-> AllocColumn(types[c], nrows)]]

InitRows ==
    /\ \E ncols \in 1..MaxCols, nrows \in 0..MaxRows, seed \in {5, 130},
          short \in {0, 1} :
          \E types \in [1..ncols -> 0..6] :
             /\ short = 1 => nrows > 0
             /\ file = Fill(MaxStart, 170)
                          \o RowPattern(nrows * RowWidth(types) + 2 - 3 * short, seed)
             \* a uint32 cell stays below 2^31
             /\ \A r \in 1..nrows, c \in 1..ncols :
                    (types[c] = 5 /\ CellOffset(MaxStart, types, r, c) < Len(file)) =>
                        ByteAt(file, CellOffset(MaxStart, types, r, c)) < 128
             /\ my_data_set = RowsDataSet(MaxStart, types, nrows)
             /\ input = << [start |-> MaxStart, types |-> types, nrows |-> nrows] >>
    /\ pos = MaxStart
    /\ pc = "DatasetSchemaRead"
    /\ driver = "Read_Generic_R_List"
    /\ junk = 0
    /\ my_header = JunkFileHeader(0)
    /\ my_data_header = JunkDataHeader(0)
    /\ my_data_group = [JunkDataGroup(0) EXCEPT !.n_data_sets = 1]
    /\ k = 0
    /\ j = 0
    /\ rets = NoRets
    /\ cells = << >>
    /\ group_reads = << >>
    /\ ds_reads = << >>
    /\ failed = FALSE
    /\ after_fail = 0
    /\ handed = << >>
    /\ heap = Allocate(NoHeap, DataSetBlocks([nread |-> 8, ret |-> 1, v |-> my_data_set],
                                             << "my_data_set" >>))
    /\ calls = << >>

SpecRows == InitRows /\ [][NextCell]_vars

(***************************************************************************)
(* Termination of the drivers: files whose nextGroupPosition chain runs    *)
(* forward, points every group at itself, or leads from the last group     *)
(* back to the first, with a declared group count below, at and above the  *)
(* number of groups stored.                                                *)
(***************************************************************************)
Chains == { "forward", "self", "cycle" }

\* the number of data sets of stored group g
LoopSets(base, g) == (base + g) % (MaxDataSets + 1)

LoopNext(chain, np, g, start, len) ==
    CASE chain = "self" -> start
      [] chain = "cycle" -> IF g = np THEN FirstBlock ELSE start + len
      [] OTHER -> IF g = np THEN 0 ELSE start + len

RECURSIVE LoopBlocks(_, _, _, _, _, _)
LoopBlocks(chain, np, g, start, base, kind) ==
    IF g > np THEN << >>
    ELSE GroupBytes(start,
                    LoopNext(chain, np, g, start, BlockLen(LoopSets(base, g), kind, 0)),
                    g, LoopSets(base, g), kind, 0)
         \o LoopBlocks(chain, np, g + 1,
                       start + BlockLen(LoopSets(base, g), kind, 0), base, kind)

LoopFile(chain, np, declared, base, kind) ==
    FileHeaderBytes(MAGIC, VERSION, declared, FirstBlock)
    \o DataHeaderBytes
    \o LoopBlocks(chain, np, 1, FirstBlock, base, kind)

InitLoop ==
    /\ \E chain \in Chains, np \in 1..(MaxGroups - 1), declared \in (-1)..MaxGroups,
          base \in 0..MaxDataSets, kind \in ColKinds :
          /\ chain = "forward" => declared <= np
          /\ file = LoopFile(chain, np, declared, base, kind)
          /\ input = << chain, np, declared, base >>
    /\ pos = 0
    /\ pc = "Start"
    /\ driver \in Drivers
    /\ junk = 0
    /\ my_header = JunkFileHeader(0)
    /\ my_data_header = JunkDataHeader(0)
    /\ my_data_group = JunkDataGroup(0)
    /\ my_data_set = JunkDataSet(0)
    /\ k = 0
    /\ j = 0
    /\ rets = NoRets
    /\ cells = << >>
    /\ group_reads = << >>
    /\ ds_reads = << >>
    /\ failed = FALSE
    /\ after_fail = 0
    /\ handed = << >>
    /\ heap = NoHeap
    /\ calls = << >>

\* the positions of a driver, and a driver that has not returned
Positions ==
    { "Start", "FileHeaderRead", "RootDataHeaderRead", "GroupHeaderRead",
      "DatasetSchemaRead", "RowsRead", "Done", "Cutoff" }
Running == pc \notin { "Done", "Cutoff" }

\* a driver that has not returned goes on to its next statement (every
\* statement of the drivers moves the position)
Advance == Running /\ pc' \in Positions \ { pc }

SpecLive == InitLoop /\ [][Next]_vars /\ WF_pc(Advance)

(***************************************************************************)
(* Whole parses of files that allocate everywhere: a data header with      *)
(* strings, triplets and parents, a data set with a triplet, named columns *)
(* of every type code 0..8 and string cells with and without a value; and  *)
(* the files of several groups and data sets.                              *)
(***************************************************************************)
FreeColSize(type) == IF type \in { TYPE_ASTRING, TYPE_AWSTRING } THEN 8 ELSE TypeWidth(type)

\* the cell of row r in a column of the type: the string cells of row 2
\* have the length 0, a type code outside 0..8 has no bytes
FreeCell(type, r) ==
    CASE type \in {0, 1} -> << 16 * r >>
      [] type \in {2, 3} -> << r, type >>
      [] type \in {4, 5, 6} -> << 0, r, type, 1 >>
      [] type = TYPE_ASTRING ->
            IF r = 2 THEN BE32(0) \o Fill(4, 0) ELSE BE32(2) \o << 72, 64 + r >> \o Fill(2, 0)
      [] type = TYPE_AWSTRING ->
            IF r = 2 THEN BE32(0) \o Fill(4, 0) ELSE BE32(1) \o << 0, 64 + r >> \o Fill(2, 0)
      [] OTHER -> << >>

FreeSchema(nt, types, nrows) ==
    WideName(7) \o BE32(nt)
    \o (IF nt = 1 THEN TripletBytes(Trip(80, 9)) ELSE << >>)
    \o BE32(Len(types))
    \o Concat([c \in 1..Len(types) |->
                  WideName(64 + c) \o << types[c] >> \o BE32(FreeColSize(types[c]))], 1)
    \o BE32(nrows)

FreeRows(types, nrows) ==
    Concat([n \in 1..(nrows * Len(types)) |->
               FreeCell(types[((n - 1) % Len(types)) + 1], ((n - 1) \div Len(types)) + 1)], 1)

FreeDataSet(start, nt, types, nrows) ==
    BE32(start + 8 + Len(FreeSchema(nt, types, nrows)))
    \o BE32(start + 8 + Len(FreeSchema(nt, types, nrows)) + Len(FreeRows(types, nrows)))
    \o FreeSchema(nt, types, nrows) \o FreeRows(types, nrows)

\* the data header h with its four strings present
NamedHeaderBytes(h) ==
    NarrowBytes(<< 100 >>) \o NarrowBytes(<< 101, 102 >>)
    \o WideBytes(<< 103 >>) \o WideBytes(<< 104 >>)
    \o SubSeq(HeaderBytes(h), 17, Len(HeaderBytes(h)))

FreeFile(h, nt, types, nrows) ==
    FileHeaderBytes(MAGIC, VERSION, 1, 10 + Len(NamedHeaderBytes(h)))
    \o NamedHeaderBytes(h)
    \o BE32(0) \o BE32(10 + Len(NamedHeaderBytes(h)) + 18) \o BE32(1) \o WideName(1)
    \o FreeDataSet(10 + Len(NamedHeaderBytes(h)) + 18, nt, types, nrows)

FreeHeaders ==
    { MkHeader(<< >>, 0, << >>),
      MkHeader(<< 65 >>, 0, << ParentHeader(1, << 67 >>, 1, << 68 >>) >>),
      MkHeader(<< 65, 66 >>, 0,
               << ParentHeader(1, << >>, 0, << >>), ParentHeader(2, << 67 >>, 0, << >>) >>) }

InitFree ==
    /\ \/ \E layout \in { "forward", "tail" }, ng \in 0..MaxGroups, nds \in 0..MaxDataSets,
             kind \in ColKinds :
             /\ file = FileBytes(layout, ng, nds, kind, 0, "none")
             /\ input = << layout, ng, nds >>
       \/ \E h \in FreeHeaders, nt \in 0..1, ncols \in 1..2, nrows \in 0..MaxRows :
             \E types \in [1..ncols -> 0..8] :
                /\ file = FreeFile(h, nt, types, nrows)
                /\ input = << "columns", types, nrows, Len(h.parents) >>
    /\ pos = 0
    /\ pc = "Start"
    /\ driver \in Drivers
    /\ junk = 0
    /\ my_header = JunkFileHeader(0)
    /\ my_data_header = JunkDataHeader(0)
    /\ my_data_group = JunkDataGroup(0)
    /\ my_data_set = JunkDataSet(0)
    /\ k = 0
    /\ j = 0
    /\ rets = NoRets
    /\ cells = << >>
    /\ group_reads = << >>
    /\ ds_reads = << >>
    /\ failed = FALSE
    /\ after_fail = 0
    /\ handed = << >>
    /\ heap = NoHeap
    /\ calls = << >>

SpecFree == InitFree /\ [][Next]_vars

(***************************************************************************)
(* Columns of a type code the readers have no case for: whole parses of    *)
(* files of one data set with up to MaxCols columns, at least one of them  *)
(* of a type code outside 0..8, whose cells have no bytes in the rows.     *)
(***************************************************************************)
OtherTypes == { 1, 4, TYPE_ASTRING, 9, 255 }

InitOther ==
    /\ \E ncols \in 1..MaxCols, nrows \in 0..MaxRows :
          \E types \in [1..ncols -> OtherTypes] :
             /\ \E c \in 1..ncols : types[c] \notin 0..8
             /\ file = FreeFile(MkHeader(<< >>, 0, << >>), 0, types, nrows)
             /\ input = << "columns", types, nrows, 0 >>
    /\ pos = 0
    /\ pc = "Start"
    /\ driver \in Drivers
    /\ junk = 0
    /\ my_header = JunkFileHeader(0)
    /\ my_data_header = JunkDataHeader(0)
    /\ my_data_group = JunkDataGroup(0)
    /\ my_data_set = JunkDataSet(0)
    /\ k = 0
    /\ j = 0
    /\ rets = NoRets
    /\ cells = << >>
    /\ group_reads = << >>
    /\ ds_reads = << >>
    /\ failed = FALSE
    /\ after_fail = 0
    /\ handed = << >>
    /\ heap = NoHeap
    /\ calls = << >>

SpecOther == InitOther /\ [][Next]_vars

(***************************************************************************)
(* The memory the metadata operations read: determine_MIMETYPE,            *)
(* decode_MIME_value, decode_MIME_value_toASCII and find_nvt on the        *)
(* triplets of a data header that was read from a file, the raw value of   *)
(* a triplet being 0..MaxRaw bytes long and its name and type tag present  *)
(* or absent.                                                              *)
(***************************************************************************)
MaxRaw == 5

ScalarKinds == { "UINT8", "INT8", "UINT16", "INT16", "UINT32", "INT32", "FLOAT32" }

\* memcpy(&contents, value.value, sizeof(int32_t)): the bytes 0..3 behind
\* value.value, which is the null pointer for an absent string
memcpy32_reads(value) == [null |-> ~value.present, indices |-> 0..3]

\* memcpy(return_value, value.value, value.len) of the two text decoders
memcpy_len_reads(value) ==
    [null |-> ~value.present /\ value.len > 0, indices |-> 0..(value.len - 1)]

\* the bytes decode_MIME_value and decode_MIME_value_toASCII read of the
\* raw value
decode_MIME_value_reads(triplet, mimetype) ==
    IF mimetype \in ScalarKinds THEN memcpy32_reads(triplet.value)
    ELSE memcpy_len_reads(triplet.value)

\* the memory behind value.value: the len bytes read from the file, the 0
\* R_Calloc(len + 1) left behind them, and behind that whatever the heap
\* holds there
InBuffer(triplet, beyond) ==
    [triplet EXCEPT !.value.value =
        [i \in 1..Max(4, Len(triplet.value.value)) |->
            IF i <= Len(triplet.value.value) THEN triplet.value.value[i]
            ELSE IF i = Len(triplet.value.value) + 1 THEN 0
            ELSE beyond[i]]]

\* a read through the null pointer
Fault == [kind |-> "fault", size |-> 0, v |-> 0]

\* wcscmp(.., s.value) reads through s.value, null for an absent string
wcscmp_null(s) == ~s.present

\* sprintf(temp, "%d", ..) and "%u": the decimal digits as characters
RECURSIVE Decimal(_)
Decimal(n) ==
    IF n < 0 THEN << 45 >> \o Decimal(-n)
    ELSE IF n < 10 THEN << 48 + n >>
    ELSE Decimal(n \div 10) \o << 48 + (n % 10) >>

\* what decode_MIME_value_toASCII returns for the value r of decode_MIME_value:
\* the text itself, the digits of an integer, "%f" of the word of a float
decode_MIME_value_toASCII(r) ==
    CASE r.kind \in { "ASCIITEXT", "PLAINTEXT", "fault" } -> r
      [] r.kind \in { "UINT8", "INT8", "UINT16", "INT16", "INT32" } ->
            [kind |-> r.kind, size |-> Len(Decimal(r.v)), v |-> Decimal(r.v)]
      [] OTHER -> [kind |-> r.kind, size |-> 0, v |-> << "%f or %u of", r.v >>]

\* the first loop of find_nvt meets a triplet with an absent name before it
\* finds a match
NullNameMet(h, wname) ==
    \E i \in 1..h.n_name_type_value :
        /\ wcscmp_null(h.name_type_value[i].name)
        /\ \A n \in 1..(i - 1) : ~NameMatches(h, wname, n)

\* find_nvt calls wcscmp on the value of an absent name
RECURSIVE find_nvt_null(_, _)
RECURSIVE find_in_parents_null(_, _, _)
find_in_parents_null(h, name, i) ==
    IF i > h.n_parent_headers THEN FALSE
    ELSE IF find_nvt_null(h.parent_headers[i], name) THEN TRUE
    ELSE IF find_nvt(h.parent_headers[i], name).found THEN FALSE
    ELSE find_in_parents_null(h, name, i + 1)
find_nvt_null(h, name) ==
    IF NullNameMet(h, mbstowcs(name)) THEN TRUE
    ELSE IF FirstMatch(h, mbstowcs(name)) # 0 THEN FALSE
    ELSE find_in_parents_null(h, name, 1)

SafeTags == { << >>, Tag_int8, Tag_uint16, Tag_int32, Tag_float, Tag_ascii, << 84 >> }
SafeTriplet(name, len, tag) ==
    [name |-> name, value |-> [i \in 1..len |-> i], type |-> tag]

InitSafe ==
    /\ \E name \in { << >>, << 65 >> }, len \in 0..MaxRaw, tag \in SafeTags,
          second \in 0..1, np \in 0..1 :
          input = << [triplets |-> << SafeTriplet(name, len, tag) >>
                                  \o (IF second = 1 THEN << Trip(66, 2) >> ELSE << >>),
                      parents |-> IF np = 1 THEN << MkHeader(<< 67 >>, 20, << >>) >>
                                  ELSE << >>] >>
    /\ file = FileHeaderBytes(MAGIC, VERSION, 0, 0) \o HeaderBytes(input[1])
    /\ pos = 0
    /\ pc = "Start"
    /\ driver = "Read_Generic_R_List"
    /\ junk = 0
    /\ my_header = JunkFileHeader(0)
    /\ my_data_header = JunkDataHeader(0)
    /\ my_data_group = JunkDataGroup(0)
    /\ my_data_set = JunkDataSet(0)
    /\ k = 0
    /\ j = 0
    /\ rets = NoRets
    /\ cells = << >>
    /\ group_reads = << >>
    /\ ds_reads = << >>
    /\ failed = FALSE
    /\ after_fail = 0
    /\ handed = << >>
    /\ heap = NoHeap
    /\ calls = << >>

\* determine_MIMETYPE(my_data_header.name_type_value[i])
ClassifyTriplet ==
    /\ pc = "RootDataHeaderRead"
    /\ rets.data_header = 1
    /\ calls = << >>
    /\ \E i \in 1..my_data_header.n_name_type_value :
          calls' = << [op |-> "determine_MIMETYPE",
                       triplet |-> my_data_header.name_type_value[i],
                       null |-> wcscmp_null(my_data_header.name_type_value[i].type),
                       mimetype |->
                          IF wcscmp_null(my_data_header.name_type_value[i].type)
                          THEN "fault"
                          ELSE determine_MIMETYPE(my_data_header.name_type_value[i])] >>
    /\ UNCHANGED << file, pos, pc, driver, junk, my_header, my_data_header,
                    my_data_group, my_data_set, k, j, rets, cells, group_reads,
                    ds_reads, failed, after_fail, handed, input, heap >>

\* the record of a decode of triplet t on the host, the memory behind a
\* short raw value holding beyond
DecodeCall(op, t, host, beyond) ==
    [op |-> op, host |-> host, triplet |-> t, mimetype |-> determine_MIMETYPE(t),
     reads |-> decode_MIME_value_reads(t, determine_MIMETYPE(t)),
     result |-> IF decode_MIME_value_reads(t, determine_MIMETYPE(t)).null THEN Fault
                ELSE decode_MIME_value(InBuffer(t, beyond), determine_MIMETYPE(t), host)]

\* decode_MIME_value(triplet, determine_MIMETYPE(triplet), &result, &size)
DecodeTriplet ==
    /\ pc = "RootDataHeaderRead"
    /\ rets.data_header = 1
    /\ calls = << >>
    /\ \E i \in 1..my_data_header.n_name_type_value, host \in Hosts,
          beyond \in [1..4 -> {0, 255}] :
          /\ my_data_header.name_type_value[i].type.present
          /\ calls' = << DecodeCall("decode_MIME_value",
                                    my_data_header.name_type_value[i], host, beyond) >>
    /\ UNCHANGED << file, pos, pc, driver, junk, my_header, my_data_header,
                    my_data_group, my_data_set, k, j, rets, cells, group_reads,
                    ds_reads, failed, after_fail, handed, input, heap >>

\* decode_MIME_value_toASCII(triplet, determine_MIMETYPE(triplet), &result, &size)
DecodeTripletToASCII ==
    /\ pc = "RootDataHeaderRead"
    /\ rets.data_header = 1
    /\ calls = << >>
    /\ \E i \in 1..my_data_header.n_name_type_value, host \in Hosts,
          beyond \in [1..4 -> {0, 255}] :
          /\ my_data_header.name_type_value[i].type.present
          /\ calls' = << [DecodeCall("decode_MIME_value_toASCII",
                                     my_data_header.name_type_value[i], host, beyond)
                          EXCEPT !.result = decode_MIME_value_toASCII(@)] >>
    /\ UNCHANGED << file, pos, pc, driver, junk, my_header, my_data_header,
                    my_data_group, my_data_set, k, j, rets, cells, group_reads,
                    ds_reads, failed, after_fail, handed, input, heap >>

\* find_nvt(&my_data_header, name)
FindTriplet ==
    /\ pc = "RootDataHeaderRead"
    /\ rets.data_header = 1
    /\ calls = << >>
    /\ \E name \in LookupNames :
          calls' = << [op |-> "find_nvt", name |-> name,
                       null |-> find_nvt_null(my_data_header, name),
                       result |-> IF find_nvt_null(my_data_header, name) THEN NotFound
                                  ELSE find_nvt(my_data_header, name)] >>
    /\ UNCHANGED << file, pos, pc, driver, junk, my_header, my_data_header,
                    my_data_group, my_data_set, k, j, rets, cells, group_reads,
                    ds_reads, failed, after_fail, handed, input, heap >>

NextSafe ==
    \/ ReadFileHeader
    \/ ReadDataHeader
    \/ ClassifyTriplet
    \/ DecodeTriplet
    \/ DecodeTripletToASCII
    \/ FindTriplet

SpecSafe == InitSafe /\ [][NextSafe]_vars

(***************************************************************************)
(* The whole parse as a function of the bytes, an encoder of the wire      *)
(* format for the structures it yields, and the round trip decode,         *)
(* re-encode, decode.                                                      *)
(***************************************************************************)
\* the data set loop of the driver from cursor p on, n data sets to go
RECURSIVE DecodeSets(_, _, _)
AfterRows(f, s, r, n) ==
    [pos |-> DecodeSets(f, fseek_set(r.pos, s.v.file_pos_last), n - 1).pos,
     cut |-> DecodeSets(f, fseek_set(r.pos, s.v.file_pos_last), n - 1).cut,
     v   |-> << [s.v EXCEPT !.Data = r.Data] >>
             \o DecodeSets(f, fseek_set(r.pos, s.v.file_pos_last), n - 1).v]
AfterSet(f, s, n) ==
    IF s.cut THEN [pos |-> s.pos, cut |-> TRUE, v |-> << >>]
    ELSE AfterRows(f, s, read_generic_data_set_rows(f, s.pos, s.v, 0), n)
DecodeSets(f, p, n) ==
    IF n <= 0 THEN [pos |-> p, cut |-> FALSE, v |-> << >>]
    ELSE AfterSet(f, read_generic_data_set(f, p, JunkDataSet(0)), n)

\* the group loop of the plain drivers from cursor p on, n groups to go
RECURSIVE DecodeGroups(_, _, _)
AfterSets(f, g, sets, n) ==
    [cut |-> sets.cut
             \/ DecodeGroups(f, fseek_set(sets.pos, g.v.file_position_nextgroup), n - 1).cut,
     v   |-> << [group |-> g.v, sets |-> sets.v] >>
             \o DecodeGroups(f, fseek_set(sets.pos, g.v.file_position_nextgroup), n - 1).v]
AfterGroup(f, g, n) ==
    IF g.v.n_data_sets > MaxCount THEN [cut |-> TRUE, v |-> << >>]
    ELSE AfterSets(f, g, DecodeSets(f, g.pos, g.v.n_data_sets), n)
DecodeGroups(f, p, n) ==
    IF n <= 0 THEN [cut |-> FALSE, v |-> << >>]
    ELSE AfterGroup(f, read_generic_data_group(f, p, JunkDataGroup(0)), n)

AfterDataHeader(f, h, d) ==
    [file_header |-> h.hdr, data_header |-> d.v,
     groups |-> IF h.hdr.n_data_groups > MaxCount \/ d.cut THEN << >>
                ELSE DecodeGroups(f, d.pos, h.hdr.n_data_groups).v,
     cut |-> IF h.hdr.n_data_groups > MaxCount \/ d.cut THEN TRUE
             ELSE DecodeGroups(f, d.pos, h.hdr.n_data_groups).cut]
AfterFileHeader(f, h) ==
    AfterDataHeader(f, h, read_generic_data_header(f, h.pos, JunkDataHeader(0)))

\* what Read_Generic_R_List decodes from the bytes f; cut: a count larger
\* than MaxCount was met and not followed
Decode(f) == AfterFileHeader(f, read_generic_file_header(f, 0, JunkFileHeader(0)))

\* the encoder: the wire format of the decoded structures, the groups and
\* data sets stored one behind the other in their decoded order
EncNarrow(s) == IF s.present THEN NarrowBytes(s.value) ELSE EmptyString
EncWide(s) == IF s.present THEN WideBytes(s.value) ELSE EmptyString
EncTriplet(t) == EncWide(t.name) \o EncNarrow(t.value) \o EncWide(t.type)
EncTriplets(ts) ==
    BE32(Len(ts)) \o Concat([i \in 1..Len(ts) |-> EncTriplet(ts[i])], 1)

RECURSIVE EncHeader(_)
EncHeader(h) ==
    EncNarrow(h.data_type_id) \o EncNarrow(h.unique_file_id)
    \o EncWide(h.Date_time) \o EncWide(h.locale)
    \o EncTriplets(h.name_type_value)
    \o BE32(Len(h.parent_headers))
    \o Concat([i \in 1..Len(h.parent_headers) |-> EncHeader(h.parent_headers[i])], 1)

EncColumn(c) == EncWide(c.name) \o << c.type >> \o BE32s(c.size)

\* a cell: the natural width of a numeric type, a string padded to the
\* declared width of its column
EncCell(col, v) ==
    CASE col.type \in {0, 1} -> << v % 256 >>
      [] col.type \in {2, 3} -> << (v \div 256) % 256, v % 256 >>
      [] col.type \in {4, 5, 6} -> BE32s(v)
      [] col.type = TYPE_ASTRING ->
            EncNarrow(v) \o Fill(col.size - Len(EncNarrow(v)), 0)
      [] col.type = TYPE_AWSTRING ->
            EncWide(v) \o Fill(col.size - Len(EncWide(v)), 0)
      [] OTHER -> << >>

EncRows(ds) ==
    Concat([n \in 1..(ds.nrows * ds.ncols) |->
               EncCell(ds.col_name_type_value[((n - 1) % ds.ncols) + 1],
                       ds.Data[((n - 1) % ds.ncols) + 1].a[((n - 1) \div ds.ncols) + 1])],
           1)

\* the schema of a data set behind its two positions
EncSchema(ds) ==
    EncWide(ds.data_set_name) \o EncTriplets(ds.name_type_value)
    \o BE32(ds.ncols)
    \o Concat([c \in 1..ds.ncols |-> EncColumn(ds.col_name_type_value[c])], 1)
    \o BE32(ds.nrows)

EncDataSet(ds, start) ==
    BE32(start + 8 + Len(EncSchema(ds)))
    \o BE32(start + 8 + Len(EncSchema(ds)) + Len(EncRows(ds)))
    \o EncSchema(ds) \o EncRows(ds)

RECURSIVE EncDataSets(_, _, _)
EncDataSets(sets, i, start) ==
    IF i > Len(sets) THEN << >>
    ELSE EncDataSet(sets[i], start)
         \o EncDataSets(sets, i + 1, start + Len(EncDataSet(sets[i], start)))

EncGroupLen(g) ==
    12 + Len(EncWide(g.group.data_group_name)) + Len(EncDataSets(g.sets, 1, 0))

EncGroup(g, start, last) ==
    BE32(IF last THEN 0 ELSE start + EncGroupLen(g))
    \o BE32(start + 12 + Len(EncWide(g.group.data_group_name)))
    \o BE32(Len(g.sets))
    \o EncWide(g.group.data_group_name)
    \o EncDataSets(g.sets, 1, start + 12 + Len(EncWide(g.group.data_group_name)))

RECURSIVE EncGroups(_, _, _)
EncGroups(gs, i, start) ==
    IF i > Len(gs) THEN << >>
    ELSE EncGroup(gs[i], start, i = Len(gs))
         \o EncGroups(gs, i + 1, start + EncGroupLen(gs[i]))

Encode(D) ==
    << D.file_header.magic_number, D.file_header.version >>
    \o BE32s(Len(D.groups))
    \o BE32(10 + Len(EncHeader(D.data_header)))
    \o EncHeader(D.data_header)
    \o EncGroups(D.groups, 1, 10 + Len(EncHeader(D.data_header)))

\* the decoded structures without the file positions
LogicalSet(ds) ==
    [data_set_name |-> ds.data_set_name,
     n_name_type_value |-> ds.n_name_type_value, name_type_value |-> ds.name_type_value,
     ncols |-> ds.ncols, col_name_type_value |-> ds.col_name_type_value,
     nrows |-> ds.nrows, Data |-> ds.Data]
LogicalGroup(g) ==
    [data_group_name |-> g.group.data_group_name, n_data_sets |-> g.group.n_data_sets,
     sets |-> [i \in 1..Len(g.sets) |-> LogicalSet(g.sets[i])]]
Logical(D) ==
    [magic_number |-> D.file_header.magic_number, version |-> D.file_header.version,
     n_data_groups |-> D.file_header.n_data_groups,
     data_header |-> D.data_header,
     groups |-> [i \in 1..Len(D.groups) |-> LogicalGroup(D.groups[i])]]

\* a file of one group of one data set of numeric columns behind a data
\* header with triplets and parents
MixedDataSetBytes(start, types, nrows, seed) ==
    BE32(start + 8 + 6 + 4 + 4 + 9 * Len(types) + 4)
    \o BE32(start + 8 + 6 + 4 + 4 + 9 * Len(types) + 4 + nrows * RowWidth(types))
    \o WideName(7) \o BE32(0) \o BE32(Len(types))
    \o Concat([c \in 1..Len(types) |->
                  EmptyString \o << types[c] >> \o BE32(TypeWidth(types[c]))], 1)
    \o BE32(nrows)
    \o RowPattern(nrows * RowWidth(types), seed)
MixedFile(h, types, nrows, seed) ==
    FileHeaderBytes(MAGIC, VERSION, 1, 10 + Len(HeaderBytes(h)))
    \o HeaderBytes(h)
    \o BE32(0) \o BE32(10 + Len(HeaderBytes(h)) + 18) \o BE32(1) \o WideName(1)
    \o MixedDataSetBytes(10 + Len(HeaderBytes(h)) + 18, types, nrows, seed)

RoundHeaders ==
    { MkHeader(<< >>, 0, << >>),
      MkHeader(<< 65 >>, 0, << ParentHeader(1, << 67 >>, 1, << 68 >>) >>),
      MkHeader(<< 65, 66 >>, 0,
               << ParentHeader(1, << >>, 0, << >>), ParentHeader(2, << 67 >>, 0, << >>) >>) }

InitRound ==
    /\ \/ \E layout \in Layouts, ng \in 0..MaxGroups, nds \in 0..MaxDataSets,
             kind \in ColKinds, pad \in {0, MaxPad} :
             /\ file = FileBytes(layout, ng, nds, kind, pad, "none")
             /\ input = << layout >>
       \/ \E h \in RoundHeaders, ncols \in 1..(MaxCols - 1), nrows \in 0..MaxRows :
             \E types \in [1..ncols -> 0..6] :
                /\ \A r \in 1..nrows, c \in 1..ncols :
                       types[c] = 5 =>
                           RowPattern(nrows * RowWidth(types), 130)[
                               CellOffset(0, types, r, c) + 1] < 128
                /\ file = MixedFile(h, types, nrows, 130)
                /\ input = << "mixed" >>
    /\ pos = 0
    /\ pc = "Start"
    /\ driver = "Read_Generic_R_List"
    /\ junk = 0
    /\ my_header = JunkFileHeader(0)
    /\ my_data_header = JunkDataHeader(0)
    /\ my_data_group = JunkDataGroup(0)
    /\ my_data_set = JunkDataSet(0)
    /\ k = 0
    /\ j = 0
    /\ rets = NoRets
    /\ cells = << >>
    /\ group_reads = << >>
    /\ ds_reads = << >>
    /\ failed = FALSE
    /\ after_fail = 0
    /\ handed = << >>
    /\ heap = NoHeap
    /\ calls = << >>

\* decode, re-encode, decode
RoundTrip ==
    /\ pc = "Start"
    /\ pc' = "RoundTripped"
    /\ calls' = << [op |-> "round_trip", first |-> Decode(file),
                    again |-> Decode(Encode(Decode(file)))] >>
    /\ UNCHANGED << file, pos, driver, junk, my_header, my_data_header,
                    my_data_group, my_data_set, k, j, rets, cells, group_reads,
                    ds_reads, failed, after_fail, handed, input, heap >>

NextRound == RoundTrip

SpecRound == InitRound /\ [][NextRound]_vars

(***************************************************************************)
(* Properties.                                                             *)
(***************************************************************************)
PlainDriver == driver \in { "Read_Generic_R_List", "Read_Generic" }

\* C1: in the plain-file drivers every group header after the first is read
\* at the offset stored in the nextGroupPosition of the group read before it,
\* wherever the cursor stood after that group's last data set.
C1_NextGroupReadAtNextGroupPosition ==
    PlainDriver =>
        \A i \in 1..(Len(group_reads) - 1) :
            group_reads[i + 1].at = group_reads[i].next

\* a file whose second logical group is not stored behind the first: the
\* cursor left the first group somewhere else than at its nextGroupPosition
C1_Witness ==
    /\ PlainDriver
    /\ ~failed
    /\ Len(group_reads) >= 2
    /\ group_reads[1].left_at # group_reads[1].next
    /\ group_reads[2].at = group_reads[1].next
    /\ group_reads[1].name.value = << 1 >>
    /\ group_reads[2].name.value = << 2 >>

\* C2: the first group header is read at the file header's
\* firstGroupPosition, so that the groups of a well-formed file are decoded
\* in their logical order 1, 2, ... whatever their physical order.
C2_FirstGroupReadAtFirstGroupPosition ==
    (driver = "Read_Generic_R_List" /\ ~failed /\ Len(group_reads) >= 1) =>
        /\ group_reads[1].at = my_header.first_group_file_pos
        /\ \A i \in 1..Len(group_reads) : group_reads[i].name.value = << i >>

\* C3: every data set schema after the first of a group is read at the
\* lastRowPosition of the data set before it, and the step after a data set
\* starts there too, whatever the row reader consumed.
C3_NextDataSetReadAtLastRowPosition ==
    /\ \A i \in 1..(Len(ds_reads) - 1) :
           ds_reads[i + 1].group = ds_reads[i].group =>
               ds_reads[i + 1].at = ds_reads[i].last
    /\ (pc = "GroupHeaderRead" /\ j > 0) => pos = my_data_set.file_pos_last

\* a data set with MaxPad bytes between its last row and its
\* lastRowPosition, followed by a data set that is read from there
C3_Witness ==
    /\ ~failed
    /\ \E i \in 1..(Len(ds_reads) - 1) :
           /\ ds_reads[i + 1].group = ds_reads[i].group
           /\ ds_reads[i].rows_end + MaxPad = ds_reads[i].last
           /\ ds_reads[i + 1].at = ds_reads[i].last
           /\ ds_reads[i + 1].ret = 1

\* C4: after a read step of Read_Generic_R_List has failed no further read
\* step is made, and after a failed file header nothing is handed to the
\* list builder.
C4_FirstFailureAbortsTheParse ==
    driver = "Read_Generic_R_List" =>
        /\ after_fail = 0
        /\ rets.file_header = 0 => handed = << >>

\* the file header has been read from a stream that starts with a byte
\* other than the magic number
BadMagicRead ==
    /\ rets.file_header # -1
    /\ Len(file) >= 1
    /\ file[1] # MAGIC

\* C5: on a first byte other than 59 read_generic_file_header returns 0
\* after one read: one byte consumed, version, n_data_groups and
\* first_group_file_pos untouched.
C5_BadMagicConsumesOneByte ==
    BadMagicRead =>
        /\ rets.file_header = 0
        /\ rets.calls = 1
        /\ pc = "FileHeaderRead" => pos = 1
        /\ my_header.version = junk
        /\ my_header.n_data_groups = junk
        /\ my_header.first_group_file_pos = junk

C5_Witness ==
    /\ BadMagicRead
    /\ pc = "FileHeaderRead"
    /\ file[1] = 60
    /\ Len(file) > 10
    /\ pos = 1
    /\ rets.file_header = 0

\* the file header has been read from a stream that starts with the magic
\* number followed by a version other than 1
BadVersionRead ==
    /\ rets.file_header # -1
    /\ Len(file) >= 2
    /\ file[1] = MAGIC
    /\ file[2] # VERSION

\* C6 as stated: the result of a version failure differs from the result of
\* a bad magic number and from the result of a short read.
C6_VersionFailureIsDistinct ==
    BadVersionRead =>
        /\ rets.file_header = 0
        /\ rets.file_header # read_generic_file_header(<< 60, 1 >>, 0, my_header).ret
        /\ rets.file_header # read_generic_file_header(<< >>, 0, my_header).ret

\* C6 amended: a version other than 1 makes read_generic_file_header return
\* 0 after two reads, the counts untouched; 0 is also what it returns for a
\* bad magic number and for a short read.
C6_VersionFailureReturnsZero ==
    BadVersionRead =>
        /\ rets.file_header = 0
        /\ rets.calls = 2
        /\ pc = "FileHeaderRead" => pos = 2
        /\ my_header.n_data_groups = junk
        /\ my_header.first_group_file_pos = junk
        /\ rets.file_header = read_generic_file_header(<< 60, 1 >>, 0, my_header).ret
        /\ rets.file_header = read_generic_file_header(<< >>, 0, my_header).ret

C6_Witness ==
    /\ BadVersionRead
    /\ pc = "FileHeaderRead"
    /\ file[2] = 2
    /\ pos = 2
    /\ rets.file_header = 0

(***************************************************************************)
(* Properties of the fixed-width string cells (SpecCell).                  *)
(***************************************************************************)
StringCell(c) == c.type \in { TYPE_ASTRING, TYPE_AWSTRING }

\* the bytes the decoded length stands for
PayloadBytes(c) ==
    IF ~c.v.present THEN 0
    ELSE IF c.type = TYPE_ASTRING THEN c.v.len ELSE 2 * c.v.len

\* the length prefix and the payload it declares are all in the stream
CellComplete(c) ==
    /\ Avail(file, c.start, 4)
    /\ Avail(file, c.start + 4, PayloadBytes(c))

\* the on-disk length prefix of the cell is there and is zero
ZeroPrefix(c) ==
    /\ Avail(file, c.start, 4)
    /\ S32(ByteAt(file, c.start), ByteAt(file, c.start + 1),
           ByteAt(file, c.start + 2), ByteAt(file, c.start + 3)) = 0

\* C7: reading a fixed-width string cell of declared width W (W >= 4, prefix
\* and payload in the stream) advances the cursor by exactly W bytes,
\* whatever the length prefix.
C7_CellConsumesDeclaredWidth ==
    \A i \in 1..Len(cells) :
        (StringCell(cells[i]) /\ cells[i].size >= 4 /\ CellComplete(cells[i])) =>
            cells[i].end - cells[i].start = cells[i].size

\* C8: the decoded payload of a fixed-width string cell of declared width W
\* (W >= 4) is at most W - 4 bytes, whatever the length prefix.
C8_PayloadWithinDeclaredWidth ==
    \A i \in 1..Len(cells) :
        (StringCell(cells[i]) /\ cells[i].size >= 4 /\ CellComplete(cells[i])) =>
            PayloadBytes(cells[i]) <= cells[i].size - 4

C10_NarrowColumnDecodesAbsent ==
    \A i \in 1..Len(cells) :
        (StringCell(cells[i]) /\ cells[i].size \in 0..4
            /\ Avail(file, cells[i].start, 4)) =>
            /\ ~cells[i].v.present
            /\ cells[i].v.value = << >>
            /\ cells[i].end >= cells[i].start

(***************************************************************************)
(* Properties of the string codecs and the triplet reader (SpecCodec).     *)
(***************************************************************************)
\* the 16-bit units of the n big-endian pairs behind offset p
UnitsOnDisk(f, p, n) ==
    [i \in 1..n |-> 256 * ByteAt(f, p + 2 * (i - 1)) + ByteAt(f, p + 2 * (i - 1) + 1)]

\* C11: with the length prefix L and the payload it declares in the stream,
\* fread_ASTRING decodes for L > 0 exactly the next L bytes and advances by
\* 4 + L, fread_AWSTRING the next L big-endian 16-bit units and advances by
\* 4 + 2L; for L <= 0 the value is absent and the cursor advances by 4.
C11_VariableWidthStringDecoding ==
    \A i \in 1..Len(calls) :
        /\ (calls[i].op = "fread_ASTRING" /\ Avail(file, calls[i].at, 4)
               /\ PrefixAt(file, calls[i].at) > 0
               /\ Avail(file, calls[i].at + 4, PrefixAt(file, calls[i].at))) =>
               /\ calls[i].ret = 1
               /\ calls[i].v.present
               /\ calls[i].v.len = PrefixAt(file, calls[i].at)
               /\ calls[i].v.value =
                      SubSeq(file, calls[i].at + 5,
                             calls[i].at + 4 + PrefixAt(file, calls[i].at))
               /\ calls[i].pos = calls[i].at + 4 + PrefixAt(file, calls[i].at)
        /\ (calls[i].op = "fread_AWSTRING" /\ Avail(file, calls[i].at, 4)
               /\ PrefixAt(file, calls[i].at) > 0
               /\ PrefixAt(file, calls[i].at) <= (Len(file) - calls[i].at - 4) \div 2) =>
               /\ calls[i].ret = 1
               /\ calls[i].v.present
               /\ calls[i].v.len = PrefixAt(file, calls[i].at)
               /\ calls[i].v.value =
                      UnitsOnDisk(file, calls[i].at + 4, PrefixAt(file, calls[i].at))
               /\ calls[i].pos = calls[i].at + 4 + 2 * PrefixAt(file, calls[i].at)
        /\ (calls[i].op \in { "fread_ASTRING", "fread_AWSTRING" }
               /\ Avail(file, calls[i].at, 4)
               /\ PrefixAt(file, calls[i].at) <= 0) =>
               /\ calls[i].ret = 1
               /\ ~calls[i].v.present
               /\ calls[i].pos = calls[i].at + 4

\* a wide string of three units has been decoded from the six bytes behind
\* its prefix, and the next read started behind them
C11_Witness ==
    /\ Len(calls) = 2
    /\ calls[1].op = "fread_AWSTRING"
    /\ calls[1].v.present
    /\ calls[1].v.value = << 65 * 256 + 66, 67 * 256 + 68, 69 * 256 + 70 >>
    /\ calls[1].pos = calls[1].at + 10
    /\ calls[2].op = "fread_ASTRING"
    /\ calls[2].at = calls[1].pos

\* the stream ends inside the triplet it was written from
TruncatedTriplet(c) ==
    /\ input # << >>
    /\ c.at = 0
    /\ Len(file) < Len(TripletBytes(input[1]))

\* C12: fread_nvt_triplet on a stream that ends inside the triplet's name,
\* value or type returns 0.
C12_TruncatedTripletFails ==
    \A i \in 1..Len(calls) :
        (calls[i].op = "fread_nvt_triplet" /\ TruncatedTriplet(calls[i])) =>
            calls[i].ret = 0

(***************************************************************************)
(* Properties of the metadata decoders (SpecDecode).                       *)
(***************************************************************************)
\* the kind a known tag names
KindNamed(tag) ==
    CASE tag = Tag_float  -> "FLOAT32"
      [] tag = Tag_plain  -> "PLAINTEXT"
      [] tag = Tag_ascii  -> "ASCIITEXT"
      [] tag = Tag_int8   -> "INT8"
      [] tag = Tag_int16  -> "INT16"
      [] tag = Tag_int32  -> "INT32"
      [] tag = Tag_uint8  -> "UINT8"
      [] tag = Tag_uint16 -> "UINT16"
      [] tag = Tag_uint32 -> "UINT32"

\* the call decoded a triplet whose type is the C string tag
MimeCall(c) == c.op = "decode_MIME_value"
TagOf(c) == CStr(c.triplet.type.value)
\* the four on-disk bytes of the raw value, b0 first
RawOf(v) == << v.value[1], v.value[2], v.value[3], v.value[4] >>

\* C13: determine_MIMETYPE maps each of the nine known tags to the kind the
\* tag names, decode_MIME_value delivers a value of that kind, and a value
\* typed text/x-calvin-unsigned-integer-16 lies in 0..65535.
C13_KnownTagsClassifyToTheirKind ==
    \A i \in 1..Len(calls) :
        (MimeCall(calls[i]) /\ TagOf(calls[i]) \in KnownTags) =>
            /\ calls[i].mimetype = KindNamed(TagOf(calls[i]))
            /\ calls[i].result.kind = KindNamed(TagOf(calls[i]))
            /\ TagOf(calls[i]) = Tag_uint16 => calls[i].result.v \in 0..65535

\* C14: for a type tag that is present and matches none of the nine known
\* tags determine_MIMETYPE returns FLOAT32, and decode_MIME_value delivers
\* one float, the big-endian reading of the raw value.
C14_UnknownTagFallsBackToFloat32 ==
    \A i \in 1..Len(calls) :
        (MimeCall(calls[i]) /\ calls[i].triplet.type.present
            /\ TagOf(calls[i]) \notin KnownTags) =>
            /\ calls[i].mimetype = "FLOAT32"
            /\ calls[i].result.kind = "FLOAT32"
            /\ calls[i].result.size = 1
            /\ calls[i].result.v = RawOf(calls[i].triplet.value)

\* a triplet typed text/x-calvin-double has been decoded as a float
C14_Witness ==
    /\ Len(calls) = 1
    /\ MimeCall(calls[1])
    /\ TagOf(calls[1]) = CalvinPrefix \o << 100, 111, 117, 98, 108, 101 >>
    /\ calls[1].result.kind = "FLOAT32"
    /\ calls[1].result.v = << 128, 0, 1, 255 >>

\* C15 as stated: a value typed text/x-calvin-integer-8 decodes to the first
\* on-disk byte b0 of its 4-byte field, sign-extended.
C15_Int8IsFirstByteOnDisk ==
    \A i \in 1..Len(calls) :
        (MimeCall(calls[i]) /\ TagOf(calls[i]) = Tag_int8) =>
            calls[i].result.v = S8(RawOf(calls[i].triplet.value)[1])

\* C15 amended: a value typed text/x-calvin-integer-8 decodes to the last
\* on-disk byte b3 of its 4-byte field (the least significant byte of the
\* big-endian field), sign-extended to -128..127, on either host.
C15_Int8IsLastByteOnDisk ==
    \A i \in 1..Len(calls) :
        (MimeCall(calls[i]) /\ TagOf(calls[i]) = Tag_int8) =>
            /\ calls[i].result.kind = "INT8"
            /\ calls[i].result.v = S8(RawOf(calls[i].triplet.value)[4])
            /\ calls[i].result.v \in -128..127

\* the int8 value 00 00 00 FF has been decoded to -1 (its first byte is 0)
C15_Witness ==
    /\ Len(calls) = 1
    /\ MimeCall(calls[1])
    /\ TagOf(calls[1]) = Tag_int8
    /\ RawOf(calls[1].triplet.value) = << 0, 0, 0, 255 >>
    /\ calls[1].result.v = -1

\* C16 as stated: the 16-bit decoders return b0*256 + b1, the top two
\* on-disk bytes of the 4-byte field (two's complement when signed).
C16_Int16IsTopTwoBytes ==
    \A i \in 1..Len(calls) :
        /\ calls[i].op = "decode_INT16_t" =>
               calls[i].result = S16(RawOf(calls[i].value)[1], RawOf(calls[i].value)[2])
        /\ calls[i].op = "decode_UINT16_t" =>
               calls[i].result = U16(RawOf(calls[i].value)[1], RawOf(calls[i].value)[2])

\* C16 amended: the 16-bit decoders return b2*256 + b3, the last two
\* on-disk bytes of the 4-byte field (two's complement when signed); b0 and
\* b1 do not influence the result.
C16_Int16IsLastTwoBytes ==
    \A i \in 1..Len(calls) :
        /\ calls[i].op = "decode_INT16_t" =>
               calls[i].result = S16(RawOf(calls[i].value)[3], RawOf(calls[i].value)[4])
        /\ calls[i].op = "decode_UINT16_t" =>
               calls[i].result = U16(RawOf(calls[i].value)[3], RawOf(calls[i].value)[4])

\* the raw value 01 7F FF 80 has been decoded by decode_UINT16_t to 0xFF80
C16_Witness ==
    /\ Len(calls) = 1
    /\ calls[1].op = "decode_UINT16_t"
    /\ RawOf(calls[1].value) = << 1, 127, 255, 128 >>
    /\ calls[1].result = 255 * 256 + 128

\* C17: decode_INT32_t, decode_UINT32_t and decode_float32 yield the word
\* b0 b1 b2 b3 (as int32, as uint32 once stored, as the bits of the float),
\* and every decoder returns on a little-endian host what it returns on a
\* big-endian host.
C17_DecodersAreBigEndianOnEveryHost ==
    \A i \in 1..Len(calls) :
        /\ calls[i].op \in { "decode_INT32_t", "decode_UINT32_t" } =>
               /\ calls[i].result = AsInt32(RawOf(calls[i].value))
               /\ BE32s(calls[i].result) = RawOf(calls[i].value)
        /\ calls[i].op = "decode_float32" =>
               calls[i].result = RawOf(calls[i].value)
        /\ calls[i].op \in Decoders =>
               /\ calls[i].result = Decoder(calls[i].op, calls[i].value, "little")
               /\ calls[i].result = Decoder(calls[i].op, calls[i].value, "big")
        /\ (MimeCall(calls[i]) /\ calls[i].mimetype = "UINT32") =>
               calls[i].result.v = RawOf(calls[i].triplet.value)

\* on a little-endian host the raw value 80 00 01 FF has been decoded by
\* decode_float32 to the word 80 00 01 FF
C17_Witness ==
    /\ Len(calls) = 1
    /\ calls[1].op = "decode_float32"
    /\ calls[1].host = "little"
    /\ RawOf(calls[1].value) = << 128, 0, 1, 255 >>
    /\ calls[1].result = << 128, 0, 1, 255 >>

(***************************************************************************)
(* Properties of the data header lineage (SpecMeta).                       *)
(***************************************************************************)
\* the headers of a lineage in depth-first order, each with its path
RECURSIVE Lineage(_, _)
RECURSIVE LineageFrom(_, _, _)
LineageFrom(h, path, i) ==
    IF i > Len(h.parent_headers) THEN << >>
    ELSE Lineage(h.parent_headers[i], path \o << i >>) \o LineageFrom(h, path, i + 1)
Lineage(h, path) == << [path |-> path, h |-> h] >> \o LineageFrom(h, path, 1)

\* header n of the lineage has a triplet named name at index i
NamedAt(L, n, i, name) ==
    /\ i \in 1..Len(L[n].h.name_type_value)
    /\ L[n].h.name_type_value[i].name.value = name
HasName(L, n, name) == \E i \in 1..Len(L[n].h.name_type_value) : NamedAt(L, n, i, name)

\* r is the first triplet named name of the lineage L: in the first header
\* in depth-first order that has one, at the lowest index
FirstInLineage(L, name, r) ==
    IF \A n \in 1..Len(L) : ~HasName(L, n, name) THEN ~r.found
    ELSE /\ r.found
         /\ \E n \in 1..Len(L) :
                /\ L[n].path = r.path
                /\ NamedAt(L, n, r.index, name)
                /\ \A i \in 1..(r.index - 1) : ~NamedAt(L, n, i, name)
                /\ \A m \in 1..(n - 1) : ~HasName(L, m, name)
                /\ r.triplet = << L[n].h.name_type_value[r.index] >>

\* C18: find_nvt returns the first triplet of the header's own list with
\* the name, else the first match of the parent headers searched depth-first
\* in declared order, else none.
C18_FindReturnsFirstMatchInLineage ==
    \A i \in 1..Len(calls) :
        calls[i].op = "find_nvt" =>
            FirstInLineage(Lineage(my_data_header, << >>), calls[i].name,
                           calls[i].result)

\* a name that only the second parent has was found there, behind a first
\* parent that has a parent of its own
C18_Witness ==
    /\ Len(calls) = 1
    /\ calls[1].op = "find_nvt"
    /\ calls[1].name = << 67 >>
    /\ calls[1].result.found
    /\ calls[1].result.path = << 2 >>
    /\ calls[1].result.index = 1
    /\ Len(my_data_header.parent_headers[1].parent_headers) = 1
    /\ Len(my_data_header.parent_headers[2].name_type_value) = 2

RECURSIVE Mirrors(_, _)
\* the header h read has the triplets and the parents of the header t the
\* file was written from, in the same order
Mirrors(h, t) ==
    /\ h.n_name_type_value = Len(t.triplets)
    /\ Len(h.name_type_value) = Len(t.triplets)
    /\ \A i \in 1..Len(t.triplets) :
           /\ h.name_type_value[i].name.value = t.triplets[i].name
           /\ h.name_type_value[i].value.value = t.triplets[i].value
           /\ h.name_type_value[i].type.value = t.triplets[i].type
    /\ h.n_parent_headers = Len(t.parents)
    /\ Len(h.parent_headers) = Len(t.parents)
    /\ \A i \in 1..Len(t.parents) : Mirrors(h.parent_headers[i], t.parents[i])

\* C19: read_generic_data_header on a well-formed data header returns 1,
\* has consumed the header to its last byte, and has built the tree the
\* bytes were written from: as many triplets and parents as declared, in
\* on-disk order, at every level.
C19_DataHeaderMirrorsTheInput ==
    rets.data_header # -1 =>
        /\ rets.data_header = 1
        /\ pos = Len(file)
        /\ Mirrors(my_data_header, input[1])

\* two parents without parents of their own: 2 direct parents, no
\* grandparent
C19_Witness ==
    /\ rets.data_header = 1
    /\ my_data_header.n_parent_headers = 2
    /\ Len(my_data_header.parent_headers) = 2
    /\ my_data_header.parent_headers[1].n_parent_headers = 0
    /\ my_data_header.parent_headers[2].n_parent_headers = 0
    /\ my_data_header.parent_headers[1].parent_headers = << >>
    /\ Len(my_data_header.parent_headers[2].name_type_value) = 2
    /\ Len(my_data_header.name_type_value) = 2

(***************************************************************************)
(* Properties of the rows of numeric columns (SpecRows).                   *)
(***************************************************************************)
\* the value of a numeric type code on disk at offset p
ValueAt(f, t, p) ==
    CASE t = 0 -> S8(ByteAt(f, p))
      [] t = 1 -> ByteAt(f, p)
      [] t = 2 -> S16(ByteAt(f, p), ByteAt(f, p + 1))
      [] t = 3 -> U16(ByteAt(f, p), ByteAt(f, p + 1))
      [] t = 5 -> U32(ByteAt(f, p), ByteAt(f, p + 1), ByteAt(f, p + 2), ByteAt(f, p + 3))
      [] OTHER -> S32(ByteAt(f, p), ByteAt(f, p + 1), ByteAt(f, p + 2), ByteAt(f, p + 3))

\* the rows have been read from a stream that holds all of them
RowsComplete ==
    /\ rets.rows # -1
    /\ Avail(file, input[1].start, input[1].nrows * RowWidth(input[1].types))

\* C20: read_generic_data_set_rows on R rows of C numeric columns returns 1,
\* reads R*C cells of 1, 2 or 4 bytes in wire order, stores the cell r*C + c
\* at index r of the array of column c, leaves every array with R entries
\* and the cursor behind the last cell.
C20_RowsBecomeColumns ==
    RowsComplete =>
        /\ rets.rows = 1
        /\ Len(cells) = input[1].nrows * Len(input[1].types)
        /\ pc = "RowsRead" =>
               pos = input[1].start + input[1].nrows * RowWidth(input[1].types)
        /\ \A c \in 1..Len(input[1].types) :
               /\ Len(my_data_set.Data[c].a) = input[1].nrows
               /\ \A r \in 1..input[1].nrows :
                      /\ my_data_set.Data[c].a[r] =
                             ValueAt(file, input[1].types[c],
                                     CellOffset(input[1].start, input[1].types, r, c))
                      /\ cells[(r - 1) * Len(input[1].types) + c].v =
                             my_data_set.Data[c].a[r]
                      /\ cells[(r - 1) * Len(input[1].types) + c].start =
                             CellOffset(input[1].start, input[1].types, r, c)
                      /\ cells[(r - 1) * Len(input[1].types) + c].end =
                             CellOffset(input[1].start, input[1].types, r, c)
                                 + TypeWidth(input[1].types[c])

\* two rows of an int8, a uint16 and an int32 column have been read: seven
\* bytes a row, the second row's cells in the second entries
C20_Witness ==
    /\ RowsComplete
    /\ pc = "RowsRead"
    /\ input[1].types = << 0, 3, 4 >>
    /\ input[1].nrows = 2
    /\ pos = input[1].start + 14
    /\ Len(my_data_set.Data[3].a) = 2
    /\ my_data_set.Data[1].a[2] = ValueAt(file, 0, input[1].start + 7)
    /\ my_data_set.Data[1].a[2] < 0
    /\ my_data_set.Data[2].a[1] # my_data_set.Data[2].a[2]

(***************************************************************************)
(* Properties of truncated rows.                                           *)
(***************************************************************************)
\* the stream ends inside cell c: its bytes (for a string cell, its length
\* prefix and the payload the prefix declares) are not all there
TruncatedCell(c) ==
    IF StringCell(c) THEN ~CellComplete(c)
    ELSE ~Avail(file, c.start, TypeWidth(c.type))

\* the rows have been read and the stream ended inside one of the cells
RowsTruncated ==
    /\ rets.rows # -1
    /\ \E i \in 1..Len(cells) : TruncatedCell(cells[i])

\* C21: when the stream ends before all cells of a data set have been read,
\* read_generic_data_set_rows fails and the partly filled column arrays are
\* not handed to the list builder.
C21_TruncatedRowsFailAndAreDiscarded ==
    RowsTruncated =>
        /\ rets.rows = 0
        /\ \A i \in 1..Len(handed) : handed[i] # "Rows"

(***************************************************************************)
(* Properties of the heap.                                                 *)
(***************************************************************************)
\* every block has been released once and nothing was read through a
\* pointer that is null or was never set
HeapClean ==
    /\ heap.live = {}
    /\ heap.lost = {}
    /\ heap.twice = {}
    /\ heap.faults = {}

\* C22: when read_generic_data_header has failed part-way, what it has
\* allocated hangs off the header, and Free_generic_data_header releases
\* every block once without reading a parent slot that was never filled:
\* nothing stays live.
C22_AbortedHeaderIsReleased ==
    (pc = "Done" /\ rets.data_header = 0) => HeapClean

(***************************************************************************)
(* Properties of the length and count fields.                              *)
(***************************************************************************)
\* C23: every length or count field the readers have stored is
\* non-negative: the len of a string, n_name_type_value and
\* n_parent_headers of a data header, n_data_sets of a data group.
C23_LengthsAreNonNegative ==
    /\ \A i \in 1..Len(calls) :
           calls[i].op \in { "fread_ASTRING", "fread_AWSTRING" } =>
               calls[i].v.len >= 0
    /\ rets.data_header # -1 =>
           /\ my_data_header.n_name_type_value >= 0
           /\ my_data_header.n_parent_headers >= 0
    /\ rets.data_group # -1 => my_data_group.n_data_sets >= 0

(***************************************************************************)
(* Properties of the readers of a decompressed stream.                     *)
(***************************************************************************)
\* C24: the parse of gzRead_Generic is the parse of Read_Generic on the
\* same bytes: gzread_generic_data_header gives the return code, the
\* structure and the cursor of read_generic_data_header, and every group
\* header after the first is read where Read_Generic reads it, at the
\* offset its fseek to the nextGroupPosition of the group before lands on.
C24_GzParseIsThePlainParse ==
    driver = "gzRead_Generic" =>
        /\ pc = "FileHeaderRead" =>
               gzread_generic_data_header(file, pos, my_data_header)
                   = read_generic_data_header(file, pos, my_data_header)
        /\ \A i \in 1..(Len(group_reads) - 1) :
               group_reads[i + 1].at
                   = fseek_set(group_reads[i].left_at, group_reads[i].next)

SchemasReadIn(g) == { d \in 1..Len(ds_reads) : ds_reads[d].group = g - 1 }

\* as many group headers were read as the file header counts, none for a
\* count <= 0, and in every group that was read as many schemas as it counts
CountsFollowed ==
    /\ Len(group_reads) = Max(my_header.n_data_groups, 0)
    /\ my_header.n_data_groups = input[3]
    /\ \A g \in 1..Len(group_reads) :
          group_reads[g].ret = 1 =>
              Cardinality(SchemasReadIn(g)) = Max(group_reads[g].sets, 0)

C27_SuccessfulParseReleasesEverything ==
    (pc = "Done" /\ ~failed) => HeapClean

\* a parse of a file with two parent headers, a narrow and a wide string
\* column with two rows is Done after at least 20 allocations
C27_Witness ==
    /\ pc = "Done" /\ ~failed
    /\ input[1] = "columns"
    /\ input[2] = << TYPE_ASTRING, TYPE_AWSTRING >> /\ input[3] = 2 /\ input[4] = 2
    /\ heap.made >= 20
    /\ heap.live = {}

(***************************************************************************)
(* Properties of the memory the metadata operations read (SpecSafe).       *)
(***************************************************************************)
DecodeCalled(c) == c.op \in { "decode_MIME_value", "decode_MIME_value_toASCII" }

\* C28: a decode of a triplet classified as a scalar kind reads only the
\* bytes 0..len-1 of the raw value, and nothing through the null pointer of
\* an absent raw value.
C28_ScalarDecodeReadsInsideTheRawValue ==
    \A i \in 1..Len(calls) :
        (DecodeCalled(calls[i]) /\ calls[i].mimetype \in ScalarKinds) =>
            /\ ~calls[i].reads.null
            /\ calls[i].reads.indices \subseteq 0..(calls[i].triplet.value.len - 1)

\* C29: determine_MIMETYPE on a triplet with an absent type tag and find_nvt
\* on a header with a triplet of absent name read nothing through the null
\* pointer; the absent tag is unrecognized, the absent name no match.
C29_AbsentStringsAreNotDereferenced ==
    \A i \in 1..Len(calls) :
        /\ calls[i].op = "determine_MIMETYPE" =>
              /\ ~calls[i].null
              /\ ~calls[i].triplet.type.present => calls[i].mimetype = "FLOAT32"
        /\ calls[i].op = "find_nvt" => ~calls[i].null

(***************************************************************************)
(* Properties of columns of a type code outside 0..8 (SpecOther).          *)
(***************************************************************************)
OtherColumns ==
    { c \in 1..my_data_set.ncols : my_data_set.col_name_type_value[c].type \notin 0..8 }

\* the pointer path is that of column c's array or of something below it
UnderColumn(b, c) ==
    /\ Len(b) >= 3
    /\ SubSeq(b, 1, 3) = Slot(<< "my_data_set" >>, "Data", c)

SchemaRead ==
    /\ rets.data_set = 1
    /\ pc \in { "DatasetSchemaRead", "RowsRead", "GroupHeaderRead", "RootDataHeaderRead",
                "Done" }

\* the values the file holds for row r of a column of type code 1 or 4
OwnCell(type, r) == IF type = 1 THEN 16 * r ELSE r * 65536 + type * 256 + 1

\* C30: a column of a type code outside 0..8 gets no data array, each of its
\* cells leaves the cursor where it was and reports no error, the arrays of
\* the other columns hold exactly their own cells, and the release of the
\* data set touches no block of that column.
C30_UnknownTypeColumnsAreLeftAlone ==
    SchemaRead =>
        /\ \A c \in OtherColumns :
              /\ my_data_set.Data[c] = [alloc |-> FALSE, a |-> << >>]
              /\ \A n \in 1..Len(cells) :
                    cells[n].col = c => (cells[n].end = cells[n].start /\ cells[n].ret = 1)
              /\ \A b \in heap.live \cup heap.lost \cup heap.twice : ~UnderColumn(b, c)
        /\ heap.faults = {}
        /\ heap.twice = {}
        /\ rets.rows # 0
        /\ pc \in { "RowsRead", "GroupHeaderRead", "RootDataHeaderRead", "Done" } =>
              \A c \in 1..my_data_set.ncols, r \in 1..my_data_set.nrows :
                  my_data_set.col_name_type_value[c].type \in {1, 4} =>
                      my_data_set.Data[c].a[r] =
                          OwnCell(my_data_set.col_name_type_value[c].type, r)

\* a parse of a data set of the columns uint8, type code 9, int32 with two
\* rows has read its six cells and released the data set
C30_Witness ==
    /\ pc = "Done" /\ ~failed
    /\ input[2] = << 1, 9, 4 >> /\ input[3] = 2
    /\ Len(cells) = 6
    /\ cells[2].type = 9 /\ cells[2].end = cells[2].start
    /\ my_data_set.Data[3].a = << 66561, 132097 >>
    /\ heap.live = {}

====
